---- MODULE Spec2Model ----
(***************************************************************************)
(* fetch-friends: decorators over a request function (url, opts?) ->       *)
(* Promise<Response>.  The model follows src/index.js and the ramda        *)
(* primitives bundled in src/cjs/index.cjs (compose, pipe, curry,          *)
(* mergeDeepLeft, andThen, apply).                                         *)
(*                                                                         *)
(* JavaScript values are tagged records [t, v]: strings, arrays and plain  *)
(* mappings.  A mapping is a function from a finite set of key strings to  *)
(* values.  Key order of a mapping is not represented.                     *)
(***************************************************************************)
EXTENDS Integers, Sequences, FiniteSets, TLC

(***************************************************************************)
(* Bounds of the model.                                                    *)
(***************************************************************************)
\* longest decorator list handed to decorate
MaxDecorators == 2
\* number of invocations of the decorated function in one behaviour
MaxCalls == 2
\* the time up to which the clock is followed, in milliseconds
MaxTime == 3

(***************************************************************************)
(* Values.                                                                 *)
(***************************************************************************)
Str(s) == [t |-> "str", v |-> s]
Arr(s) == [t |-> "arr", v |-> s]
Obj(m) == [t |-> "obj", v |-> m]
Undefined == [t |-> "undefined", v |-> ""]
\* a number of milliseconds
Num(n) == [t |-> "num", v |-> n]
\* the signal of the id-th AbortController created
Sig(id) == [t |-> "signal", v |-> id]
\* an Error with the given message
Err(msg) == [t |-> "error", v |-> msg]
\* null
Null == [t |-> "null", v |-> ""]
\* an object that refers to itself
Circular == [t |-> "circular", v |-> ""]

\* the mapping with no keys, {}
EmptyMap == [k \in {} |-> Str("")]

\* all mappings from a subset of keys to vals
MapsOver(keys, vals) == UNION {[s -> vals] : s \in SUBSET keys}

\* Object.prototype.toString.call(x) === '[object Object]'
isObject(x) == x.t = "obj"

(***************************************************************************)
(* ramda: mergeWithKey, mergeDeepWithKey, mergeDeepLeft.                   *)
(***************************************************************************)
\* result[k] = has(k, r) ? fn(k, l[k], r[k]) : l[k] for k in l; then the
\* keys of r that result does not have yet.  fn is given by its results
\* fn[k] on the keys both operands have.
\* a slip: for a key of both operands the value of r is taken
mergeWithKeyOfRight(fn, l, r) ==
  [k \in DOMAIN l \cup DOMAIN r |-> IF k \in DOMAIN r THEN r[k] ELSE l[k]]

mergeWithKey(fn, l, r) ==
  [k \in DOMAIN l \cup DOMAIN r |->
     IF k \in DOMAIN l
       THEN IF k \in DOMAIN r THEN fn[k] ELSE l[k]
       ELSE r[k]]

\* a slip: the right operand wins (mergeDeepRight)
mergeRightValue(k, lVal, rVal) == rVal

\* the conflict function mergeDeepLeft hands to mergeDeepWithKey
mergeLeftValue(k, lVal, rVal) == lVal

RECURSIVE mergeDeepWithKeyLeft(_, _)
\* mergeDeepWithKey specialised to mergeLeftValue: two plain mappings under
\* the same key merge recursively, any other conflict goes to the function.
mergeDeepWithKeyLeft(lObj, rObj) ==
  mergeWithKey([k \in DOMAIN lObj \cap DOMAIN rObj |->
                  IF isObject(lObj[k]) /\ isObject(rObj[k])
                    THEN Obj(mergeDeepWithKeyLeft(lObj[k].v, rObj[k].v))
                    ELSE mergeLeftValue(k, lObj[k], rObj[k])],
               lObj, rObj)

\* a shallow merge: nested mappings are not merged, the left one replaces
mergeShallowLeft(lObj, rObj) ==
  mergeWithKey([k \in DOMAIN lObj \cap DOMAIN rObj |-> lObj[k]], lObj, rObj)

\* a slip: the keys only the right operand has are dropped
mergeDropRight(lObj, rObj) ==
  [k \in DOMAIN lObj |-> mergeDeepWithKeyLeft(lObj, rObj)[k]]

mergeDeepLeft(lObj, rObj) == mergeDeepWithKeyLeft(lObj, rObj)


(***************************************************************************)
(* Functions as values.  A function value records how its body computes    *)
(* its result:                                                             *)
(*   "const"  () => ret                     (sync or async)                *)
(*   "spread" opts => ({...opts, ...ret})   (sync or async)                *)
(*   "keyed"  async () => ({[key]: is(Function, ret) ? await ret() : ret}) *)
(*            the patch function that option builds around its value       *)
(*   "raise"  () => { throw ret }, or async: a promise rejected with ret   *)
(*   "abort"  () => abort(ret): a new AbortController whose signal is      *)
(*            returned and that aborts itself ret milliseconds later       *)
(***************************************************************************)
Fn(body, async, key, ret) ==
  [t |-> "fn", v |-> [body |-> body, async |-> async, key |-> key, ret |-> ret]]

\* R.is(Function, val)
isFunction(val) == val.t = "fn"

\* { ...opts, ...m }
spread(opts, m) ==
  [k \in DOMAIN opts \cup DOMAIN m |-> IF k \in DOMAIN m THEN m[k] ELSE opts[k]]

(***************************************************************************)
(* JSON.stringify on strings, arrays of strings and mappings.  The keys of *)
(* a mapping are written in the order of KeyOrder.                         *)
(***************************************************************************)
KeyOrder ==
  <<"method", "headers", "body", "hello", "message", "Authorization",
    "Content-Type", "Some-Header", "nested", "x">>

RECURSIVE joinWith(_, _)
joinWith(parts, sep) ==
  IF parts = <<>> THEN ""
  ELSE IF Len(parts) = 1 THEN parts[1]
  ELSE parts[1] \o sep \o joinWith(Tail(parts), sep)

quote(s) == "\"" \o s \o "\""

\* JSON.stringify(val) throws a TypeError: val is a circular structure
stringifyThrows(val) == val.t = "circular"

RECURSIVE stringify(_)
\* the string JSON.stringify(val) returns; there is none, and "" stands for
\* that, when it throws
stringify(val) ==
  CASE val.t = "str" -> quote(val.v)
    [] val.t = "circular" -> ""
    [] val.t = "arr" ->
         "[" \o joinWith([i \in 1..Len(val.v) |-> quote(val.v[i])], ",") \o "]"
    [] val.t = "obj" ->
         LET present == SelectSeq(KeyOrder, LAMBDA k : k \in DOMAIN val.v)
         IN "{" \o joinWith([i \in 1..Len(present) |->
                              quote(present[i]) \o ":" \o stringify(val.v[present[i]])],
                            ",") \o "}"

(***************************************************************************)
(* Decorators (src/index.js).  A decorator awaiting its inner function is  *)
(* a record: "options" with the patch it closes over, "body", or "pass",   *)
(* the pass-through decorator fetch => (...args) => fetch(...args) of the  *)
(* test-suite.                                                             *)
(***************************************************************************)
NoValue == Str("")

options(patch) == [kind |-> "options", patch |-> patch]

\* a slip: option hands the value itself to options instead of {[key]: value}
optionUnkeyed(key, value) == options(value)

option(key, value) == options(Fn("keyed", TRUE, key, value))

method(value) == option("method", value)

headers(value) == option("headers", value)

\* option('signal', () => abort(ms))
timeout(ms) == option("signal", Fn("abort", FALSE, "", Num(ms)))

body == [kind |-> "body", patch |-> NoValue]

pass == [kind |-> "pass", patch |-> NoValue]

\* memoizeWith((...args) => JSON.stringify(args)) of the test-suite: the
\* decorator that, applied to fetch, closes over a cache of its own
memoize == [kind |-> "memo", patch |-> NoValue]

\* a decorator that calls its inner function again, with the arguments it
\* was called with, when the promise it got back rejects: up to n more
\* times.  It stands for retry(n) of the README, which is not part of this
\* repository.
retry(n) == [kind |-> "retry", patch |-> Num(n)]

\* JSON.stringify(args), the key under which a result is cached
memoKey(args) ==
  "[" \o joinWith([i \in 1..Len(args) |-> stringify(args[i])], ",") \o "]"

\* a slip: body sets method GET
bodyPatchGet(json) ==
  ("method" :> Str("GET")) @@
  ("headers" :> Obj("Content-Type" :> Str("application/json"))) @@
  ("body" :> Str(stringify(json)))

\* the patch body hands to options
bodyPatch(json) ==
  ("method" :> Str("POST")) @@
  ("headers" :> Obj("Content-Type" :> Str("application/json"))) @@
  ("body" :> Str(stringify(json)))

(***************************************************************************)
(* ramda: reverse, pipe, compose.  A composite of unary functions is the   *)
(* sequence of its functions in the order they are called.                 *)
(***************************************************************************)
\* a slip: a pipe that calls its functions from the last to the first
pipeBackwards(fns) == [i \in 1..Len(fns) |-> fns[Len(fns) + 1 - i]]

pipe(fns) == fns

\* a slip: compose without the reverse, i.e. pipe
composeUnreversed(fns) == pipe(fns)

\* a slip: a reverse that returns its list as it is
reverseNothing(list) == list

reverse(list) == [i \in 1..Len(list) |-> list[Len(list) + 1 - i]]

compose(fns) == pipe(reverse(fns))

\* Calling pipe(fns)(g) with decorators: each wraps what the previous one
\* returned.  A decorated function is the sequence of its wrappers,
\* outermost first; the base function is the empty sequence.
\* a slip: each decorator is put inside what was built so far
applyPipeInside(fns, g) == g \o fns

RECURSIVE applyPipe(_, _)
applyPipe(fns, g) ==
  IF fns = <<>> THEN g ELSE applyPipe(Tail(fns), <<Head(fns)>> \o g)

\* a slip: decorate with pipe, the last decorator listed outermost
decoratePiped(fn, decorators) == applyPipe(pipe(decorators), fn)

\* export default (fn, decorators) => compose(...decorators)(fn)
decorate(fn, decorators) == applyPipe(compose(decorators), fn)

\* d(fn): the wrapper d returns, around fn
direct(d, fn) == <<d>> \o fn

(***************************************************************************)
(* One layer of the decorated function at call time.                       *)
(*   options: pipe(async (url, opts = {}) => [url, mergeDeepLeft(opts,     *)
(*            is(Function, decorate) ? await decorate(opts) : decorate)],  *)
(*            andThen(apply(fetch)))                                       *)
(*   body:    (json, url, opts = {}) => options({...}, fetch)(url, opts)   *)
(***************************************************************************)
\* a parameter: undefined when the caller passed fewer arguments
arg(args, n) == IF Len(args) >= n THEN args[n] ELSE Undefined

\* a parameter with the default value {}
argOrDefault(args, n) == IF arg(args, n) = Undefined THEN Obj(EmptyMap) ELSE args[n]

\* a slip: body reads its url from the first position, like the others
layerUrlFirst(d, args) == arg(args, 1)

layerUrl(d, args) == IF d.kind = "body" THEN arg(args, 2) ELSE arg(args, 1)

layerOpts(d, args) ==
  IF d.kind = "body" THEN argOrDefault(args, 3) ELSE argOrDefault(args, 2)

\* a slip: body serializes its second argument, the url
layerPatchOfUrl(d, args) ==
  IF d.kind = "body" THEN Obj(bodyPatch(arg(args, 2))) ELSE d.patch

layerPatch(d, args) ==
  IF d.kind = "body" THEN Obj(bodyPatch(arg(args, 1))) ELSE d.patch

\* a slip: options calls its function patch with no argument
patchArgsNone(opts) == <<>>

\* decorate(opts): the arguments options calls its function patch with
patchArgs(opts) == <<Obj(opts)>>

\* a slip: option hands the arguments of its patch function on to value
valueArgsForwarded(received) == received

\* value(): the arguments option's patch function calls the value with,
\* whatever it received itself
valueArgs(received) == <<>>

\* a slip: the result is used without await; the promise an async function
\* returns is an object with no keys of its own
awaitedNot(async, val) == IF async THEN Obj(EmptyMap) ELSE val

\* await x: x itself, or what the promise x resolves to
awaited(async, val) == val

RECURSIVE callFn(_, _, _)
\* what calling the function value f with args returns, or resolves to;
\* tok is the number of the AbortController a call of abort creates
callFn(f, args, tok) ==
  CASE f.v.body = "const" -> awaited(f.v.async, f.v.ret)
    [] f.v.body = "spread" ->
         awaited(f.v.async, Obj(spread(argOrDefault(args, 1).v, f.v.ret.v)))
    [] f.v.body = "abort" -> Sig(tok)
    [] f.v.body = "raise" -> f.v.ret
    [] f.v.body = "keyed" ->
         Obj(f.v.key :> (IF isFunction(f.v.ret)
                           THEN callFn(f.v.ret, valueArgs(args), tok)
                           ELSE f.v.ret))

RECURSIVE raises(_)
\* calling f throws, or returns a promise that rejects
raises(f) ==
  /\ isFunction(f)
  /\ \/ f.v.body = "raise"
     \/ f.v.body = "keyed" /\ raises(f.v.ret)

RECURSIVE createsToken(_)
\* calling f creates an AbortController and starts its timer
createsToken(f) ==
  /\ isFunction(f)
  /\ \/ f.v.body = "abort"
     \/ f.v.body = "keyed" /\ createsToken(f.v.ret)

\* a slip: one controller, kept outside the function, serves every call
tokenIdShared(toks) == 1

\* the number of the controller that new AbortController() creates
tokenId(toks) == Len(toks) + 1

\* the delay of that timer
tokenDelay(f) == IF f.v.body = "abort" THEN f.v.ret.v ELSE f.v.ret.v.ret.v

\* the characters of the strings that are used as patches
characters(s) ==
  CASE s = "ab" -> <<Str("a"), Str("b")>>
    [] s = "" -> <<>>

\* the properties mergeWithKey finds in its right operand r with
\* for (k in r) and _has(k, r): the entries of a mapping, the characters of
\* a string under their indices, none in a number or in null
ownProperties(r) ==
  CASE isObject(r) -> r.v
    [] r.t = "str" ->
         LET cs == characters(r.v)
         IN [k \in {"0", "1"} \cap {IF i = 1 THEN "0" ELSE "1" : i \in 1..Len(cs)} |->
               IF k = "0" THEN cs[1] ELSE cs[2]]
    [] OTHER -> EmptyMap

\* _has(k, r) is Object.prototype.hasOwnProperty.call(r, k): a TypeError
\* for r null, raised for the first key of l
hasOwnThrows(l, r) == r = Null /\ DOMAIN l # {}

\* the mapping a patch resolves to, given the opts its layer received
resolve(patch, opts, tok) ==
  IF ~isFunction(patch)
    THEN ownProperties(patch)
    ELSE callFn(patch, patchArgs(opts), tok).v

RECURSIVE reasonOf(_)
\* what a raising function throws or rejects with
reasonOf(f) == IF f.v.body = "raise" THEN f.v.ret ELSE reasonOf(f.v.ret)

\* a slip: a failure of the patch function is caught and nothing is patched
patchOutcomeSwallowed(fun, opts, tok) ==
  IF raises(fun)
    THEN [state |-> "fulfilled", value |-> <<Obj(EmptyMap)>>]
    ELSE [state |-> "fulfilled", value |-> <<Obj(resolve(fun, opts, tok))>>]

\* how await decorate(opts) ends inside the async wrapper: with the mapping
\* to merge, or with the failure, which rejects the wrapper's promise
patchOutcome(fun, opts, tok) ==
  IF raises(fun)
    THEN [state |-> "rejected", value |-> <<reasonOf(fun)>>]
    ELSE [state |-> "fulfilled", value |-> <<Obj(resolve(fun, opts, tok))>>]

\* a slip: the wrapper keeps opts in one variable outside the function, so
\* a call that resumes finds the opts of the call that came last; seen is
\* the opts that reached this layer, call by call
frameOptsShared(hop, seen) == seen[Len(seen)]

\* opts as the suspended wrapper finds it when it resumes: its own parameter
frameOpts(hop, seen) == hop.opts

\* a slip: a rejection is caught and becomes a fulfilment with undefined
andThenCaught(outcome) ==
  IF outcome.state = "rejected"
    THEN [state |-> "fulfilled", value |-> <<Undefined>>]
    ELSE outcome

\* andThen(f)(p) is p.then(f): the promise a layer returns settles as the
\* promise its inner function returned, and a rejection of p passes through
andThen(outcome) == outcome

RECURSIVE settleThrough(_, _)
\* the outcome after n layers have handed it outwards
settleThrough(n, outcome) ==
  IF n = 0 THEN outcome ELSE settleThrough(n - 1, andThen(outcome))

\* how many times resolving the patch runs a function the user supplied
userCalls(patch) ==
  IF ~isFunction(patch) THEN 0
  ELSE IF patch.v.body = "keyed"
         THEN (IF isFunction(patch.v.ret) THEN 1 ELSE 0)
         ELSE 1

\* a slip: the patch function is run already when the decorator is applied
callsOnApplyEager(d) == IF d.kind = "options" THEN userCalls(d.patch) ELSE 0

\* applying a decorator to its inner function only builds closures
callsOnApply(d) == 0

\* a slip: an empty merged mapping is not handed on
innerArgsOmitting(url, merged) ==
  IF merged = EmptyMap THEN <<url>> ELSE <<url, Obj(merged)>>

\* what the wrapper hands to its inner function: apply(fetch)([url, merged])
innerArgs(url, merged) == <<url, Obj(merged)>>

(***************************************************************************)
(* Inputs.                                                                 *)
(***************************************************************************)
Url == Str("123.com")

BearerAuth == "Authorization" :> Str("Bearer 123")
OtherAuth == "Authorization" :> Str("Bearer 456")
ContentJson == "Content-Type" :> Str("application/json")
ContentXml == "Content-Type" :> Str("application/xml")
SomeHeader == "Some-Header" :> Str("Some-Value")

\* the decorators lists are drawn from
Pool ==
  { options(Obj("method" :> Str("POST"))),
    options(Fn("spread", FALSE, "", Obj("method" :> Str("GET")))),
    options(Fn("const", TRUE, "",
               Obj(("headers" :> Obj(ContentXml @@ SomeHeader)) @@
                   ("body" :> Str("patched"))))),
    method(Str("DELETE")),
    headers(Obj(BearerAuth)),
    headers(Fn("const", FALSE, "", Obj(ContentXml))),
    headers(Fn("const", TRUE, "", Obj(OtherAuth @@ ContentXml))),
    pass }

\* body is documented to go first in a list
DecoratorLists ==
  UNION {[1..n -> Pool] \cup
         {<<body>> \o rest : rest \in (IF n = 0 THEN {} ELSE [1..(n - 1) -> Pool])}
         : n \in 0..MaxDecorators}

\* the options mappings callers pass
CallerOpts ==
  { EmptyMap,
    "method" :> Str("GET"),
    "body" :> Str("yeet"),
    "headers" :> Obj(ContentJson),
    "headers" :> Str("none"),
    "headers" :> Obj(SomeHeader),
    ("method" :> Str("GET")) @@ ("headers" :> Obj(ContentJson @@ SomeHeader)),
    ("headers" :> Obj(BearerAuth)) @@ ("body" :> Arr(<<"a">>)) }

\* the payloads callers hand to body
Payloads == { Obj("hello" :> Str("world")), Str("hi") }

\* every mapping over method and headers, headers down to two levels
DeepLeaves == MapsOver({"x"}, {Str("1"), Str("2")})

DeepHeaders ==
  { ct @@ n : ct \in MapsOver({"Content-Type"},
                              {Str("application/json"), Str("application/xml")}),
              n \in MapsOver({"nested"}, {Str("s")} \cup {Obj(m) : m \in DeepLeaves}) }

DeepMaps ==
  { m @@ h : m \in MapsOver({"method"}, {Str("GET"), Str("POST")}),
             h \in MapsOver({"headers"},
                            {Str("none"), Arr(<<"a">>)} \cup {Obj(x) : x \in DeepHeaders}) }

DeepPatches ==
  UNION { { Obj(m),
            Fn("const", FALSE, "", Obj(m)),
            Fn("const", TRUE, "", Obj(m)),
            Fn("spread", FALSE, "", Obj(m)) } : m \in DeepMaps }

DeepArgs == {<<Url>>} \cup {<<Url, Obj(o)>> : o \in DeepMaps}

PlainArgs == {<<Url>>} \cup {<<Url, Obj(o)>> : o \in CallerOpts}

BodyArgs == {<<j>> \o a : j \in Payloads, a \in PlainArgs}

\* the argument lists a caller of the decorated function may pass
ArgsFor(fn) ==
  IF fn # <<>> /\ fn[1].kind = "body" THEN BodyArgs ELSE PlainArgs

(***************************************************************************)
(* State.                                                                  *)
(***************************************************************************)
VARIABLES
  decorators,  \* the list handed to decorate
  built,       \* "no", "yes", or "threw" once decorate has run
  layers,      \* the decorated function: its wrappers, outermost first
  applied,     \* the decorators in the order they were applied
  calls,       \* the invocations of the decorated function, by number
  patchCalls,  \* per layer: times the user's patch function has run
  fnCalls,     \* times the base function has been called
  form,        \* the expression the decorated function was built with
  tokens,      \* the AbortControllers created so far, by number
  now,         \* the time, in milliseconds
  heap,        \* the mappings that exist as objects, by address
  refs,        \* per merge on the heap: the addresses it involved
  memo,        \* per layer: the cache a memoizing decorator closes over
  chain        \* a promise chain the caller builds with then

vars ==
  <<decorators, built, layers, applied, calls, patchCalls, fnCalls, form,
    tokens, now, heap, refs, memo, chain>>

timeVars == <<tokens, now>>

heapVars == <<heap, refs>>

otherVars == <<memo, chain>>

NoOutcome == [state |-> "pending", value |-> <<>>]

\* the decorated function is the one decorate returned
ViaDecorate == [family |-> "decorate", name |-> "decorate", groups |-> <<>>]

\* a call whose result the caller has consumed: nothing of it is kept
Returned ==
  [phase |-> "returned", args |-> <<>>, layer |-> 0, hops |-> <<>>,
   trace |-> <<>>, fnArgs |-> <<>>, inner |-> NoOutcome, result |-> NoOutcome,
   form |-> ViaDecorate, fnAt |-> 0, innerAt |-> 0, memos |-> <<>>,
   tries |-> <<>>]

NewCall(args) ==
  [phase |-> "called", args |-> args, layer |-> 0, hops |-> <<>>,
   trace |-> <<>>, fnArgs |-> <<>>, inner |-> NoOutcome, result |-> NoOutcome,
   form |-> form, fnAt |-> 0, innerAt |-> 0, memos |-> <<>>, tries |-> <<>>]

\* the layers that call their inner function at once with the arguments
\* they were called with
Forwarding == {"pass", "retry"}

\* the first layer at or after i that does not forward; Len(layers) + 1
\* stands for the base function
stop(i) ==
  CHOOSE j \in i..(Len(layers) + 1) :
    /\ j = Len(layers) + 1 \/ layers[j].kind \notin Forwarding
    /\ \A k \in i..(j - 1) : layers[k].kind \in Forwarding

\* args carry, under opts.signal, a signal that has been signalled
signalledIn(args) ==
  /\ Len(args) >= 2
  /\ isObject(args[2])
  /\ "signal" \in DOMAIN args[2].v
  /\ args[2].v["signal"].t = "signal"
  /\ args[2].v["signal"].v \in DOMAIN tokens
  /\ tokens[args[2].v["signal"].v].signalled

\* a call of its inner function by the retrying layer j
try(j, args) ==
  [layer |-> j, args |-> args, at |-> now, signalled |-> signalledIn(args)]

\* the first calls the retrying layers among i..j make of their inner
\* functions, the run with args passing from layer i to layer j
triesOn(i, j, args) ==
  LET rs == SelectSeq([k \in 1..(j + 1 - i) |-> i + k - 1],
                      LAMBDA k : k <= Len(layers) /\ layers[k].kind = "retry")
  IN [n \in 1..Len(rs) |-> try(rs[n], args)]

\* a slip: the decorators are applied anew by every invocation, so that
\* each finds the cache of a new closure
cacheOfFresh(j) == {}

\* the cache of the memoizing layer j, made when decorate applied the
\* decorator: the keys stored, each with the call that stored it
cacheOf(j) == memo[j]

cacheHit(j, args) == \E e \in cacheOf(j) : e.key = memoKey(args)

RECURSIVE through(_, _)
\* the layer at or after i where the synchronous run of a call with args
\* ends: pass-throughs forward, and so does a memoizing layer that has no
\* result for args
through(i, args) ==
  LET j == stop(i)
  IN IF j <= Len(layers) /\ layers[j].kind = "memo" /\ ~cacheHit(j, args)
       THEN through(j + 1, args)
       ELSE j

\* the memoizing layers among i..j, as a sequence
memoLayers(i, j) ==
  SelectSeq([k \in 1..(j + 1 - i) |-> i + k - 1],
            LAMBDA k : k <= Len(layers) /\ layers[k].kind = "memo")

\* what the run from layer i to layer j, with args, met at memoizing layers
memoVisits(i, j, args) ==
  LET ms == memoLayers(i, j)
  IN [n \in 1..Len(ms) |->
        [layer |-> ms[n], key |-> memoKey(args), hit |-> cacheHit(ms[n], args)]]

\* the caches after that run by call c: each layer that had no result
\* stores the promise its inner function returned
memoAfter(i, args, c) ==
  LET j == through(i, args)
  IN [k \in DOMAIN memo |->
        IF k \in i..(j - 1) /\ layers[k].kind = "memo"
          THEN memo[k] \cup {[key |-> memoKey(args), call |-> c]}
          ELSE memo[k]]

\* an event of a call: what happened, at which layer, and the decorator there
event(ev, j) ==
  [ev |-> ev, layer |-> j,
   dec |-> IF j \in 1..Len(layers) THEN layers[j] ELSE [kind |-> "fn", patch |-> NoValue]]

passTrace(i, j) ==
  [k \in 1..(j - i) |->
     event(CASE layers[i + k - 1].kind = "memo" -> "miss"
             [] layers[i + k - 1].kind = "retry" -> "try"
             [] OTHER -> "pass",
           i + k - 1)]

\* a slip: the wrapper is not an async function and the inner function is
\* called directly, so that what is thrown reaches the caller as a throw
surfacesAsThrow(hops) == "threw"

\* where something thrown synchronously ends up: inside an options layer,
\* that is inside its async function or inside the callback of then, it
\* rejects that layer's promise; with no such layer entered it reaches the
\* caller as a throw
surfaces(hops) == IF hops = <<>> THEN "threw" ELSE "unwinding"

\* the call after err has been thrown synchronously
thrown(rec, err) ==
  [rec EXCEPT !.phase = surfaces(rec.hops),
              !.innerAt = now,
              !.inner = [state |-> IF surfaces(rec.hops) = "threw"
                                     THEN "thrown" ELSE "rejected",
                         value |-> <<err>>]]

\* The synchronous run that starts when layer i (or the base function) is
\* called with args: pass-throughs forward at once; an options layer either
\* calls its patch function, which runs up to its first await, or, for a
\* literal patch, merges.
enter(rec, i, args) ==
  LET j == through(i, args)
  IN IF j = Len(layers) + 1
       THEN [rec EXCEPT !.phase = "fn", !.layer = j, !.fnArgs = args, !.fnAt = now,
                        !.memos = @ \o memoVisits(i, j, args),
                                  !.tries = @ \o triesOn(i, j, args),
                        !.trace = @ \o passTrace(i, j) \o <<event("fn", j)>>]
     ELSE IF layers[j].kind = "body" /\ stringifyThrows(arg(args, 1))
       THEN thrown([rec EXCEPT !.layer = j,
                               !.memos = @ \o memoVisits(i, j, args),
                               !.tries = @ \o triesOn(i, j, args),
                               !.trace = @ \o passTrace(i, j) \o <<event("threw", j)>>],
                   Err("TypeError"))
     ELSE IF layers[j].kind = "memo"
       THEN LET e == CHOOSE e \in cacheOf(j) : e.key = memoKey(args)
            IN [rec EXCEPT !.phase = "unwinding", !.layer = j,
                           !.inner = calls[e.call].inner, !.innerAt = now,
                           !.memos = @ \o memoVisits(i, j, args),
                                  !.tries = @ \o triesOn(i, j, args),
                           !.trace = @ \o passTrace(i, j) \o <<event("hit", j)>>]
       ELSE LET d == layers[j]
                patch == layerPatch(d, args)
                opts == layerOpts(d, args).v
                hop == [layer |-> j, args |-> args, url |-> layerUrl(d, args),
                        opts |-> opts, done |-> FALSE,
                        patch |-> EmptyMap, merged |-> EmptyMap, at |-> now,
                        patchArgs |-> IF isFunction(patch) THEN patchArgs(opts) ELSE <<>>,
                        token |-> IF createsToken(patch) THEN tokenId(tokens) ELSE 0]
            IN IF isFunction(patch)
                 THEN [rec EXCEPT !.phase = "resolving", !.layer = j,
                                  !.hops = Append(@, hop),
                                  !.memos = @ \o memoVisits(i, j, args),
                                  !.tries = @ \o triesOn(i, j, args),
                                  !.trace = @ \o passTrace(i, j) \o <<event("start", j)>>]
                 ELSE IF hasOwnThrows(opts, patch)
                   THEN [rec EXCEPT !.phase = "unwinding", !.layer = j,
                                    !.memos = @ \o memoVisits(i, j, args),
                                  !.tries = @ \o triesOn(i, j, args),
                                    !.hops = Append(@, hop),
                                    !.inner = [state |-> "rejected",
                                               value |-> <<Err("TypeError")>>],
                                    !.innerAt = now,
                                    !.trace = @ \o passTrace(i, j)
                                                \o <<event("start", j), event("failed", j)>>]
                 ELSE [rec EXCEPT !.phase = "merged", !.layer = j,
                                  !.memos = @ \o memoVisits(i, j, args),
                                  !.tries = @ \o triesOn(i, j, args),
                                  !.hops = Append(@, [hop EXCEPT
                                             !.done = TRUE,
                                             !.patch = resolve(patch, opts, 0),
                                             !.merged = mergeDeepLeft(opts, resolve(patch, opts, 0))]),
                                  !.trace = @ \o passTrace(i, j)
                                              \o <<event("start", j), event("done", j)>>]

\* the counters after that run
patchCallsAfter(i, args) ==
  LET j == through(i, args)
  IN IF j = Len(layers) + 1 \/ layers[j].kind = "memo" THEN patchCalls
     ELSE [patchCalls EXCEPT ![j] = @ + userCalls(layerPatch(layers[j], args))]

fnCallsAfter(i, args) ==
  IF through(i, args) = Len(layers) + 1 THEN fnCalls + 1 ELSE fnCalls

\* a slip: setTimeout(controller.abort(), ms) aborts at once
newTokenAbortedAtOnce(ms) == [due |-> now + ms, signalled |-> TRUE]

\* new AbortController(); setTimeout(() => controller.abort(), ms)
newToken(ms) == [due |-> now + ms, signalled |-> FALSE]

\* the controllers toks with tok as the one numbered id
withToken(toks, id, tok) ==
  [k \in 1..(IF id > Len(toks) THEN id ELSE Len(toks)) |->
     IF k = id THEN tok ELSE toks[k]]

\* the controllers after that run
tokensAfter(i, args) ==
  LET j == through(i, args)
  IN IF j = Len(layers) + 1 \/ layers[j].kind = "memo" THEN tokens
     ELSE LET patch == layerPatch(layers[j], args)
          IN IF createsToken(patch)
               THEN withToken(tokens, tokenId(tokens), newToken(tokenDelay(patch)))
               ELSE tokens

InFlight == {c \in DOMAIN calls : calls[c].phase # "returned"}

\* the opts with which layer j has been entered by the calls in flight, in
\* the order of the calls
seenAt(j) ==
  LET at == SelectSeq([c \in DOMAIN calls |-> calls[c].hops],
                      LAMBDA hs : \E p \in 1..Len(hs) : hs[p].layer = j)
  IN [i \in 1..Len(at) |->
        at[i][CHOOSE p \in 1..Len(at[i]) : at[i][p].layer = j].opts]

\* the signal fn was given under opts.signal has been signalled
Aborted(rec) ==
  /\ Len(rec.fnArgs) >= 2
  /\ isObject(rec.fnArgs[2])
  /\ "signal" \in DOMAIN rec.fnArgs[2].v
  /\ rec.fnArgs[2].v["signal"].t = "signal"
  /\ rec.fnArgs[2].v["signal"].v \in DOMAIN tokens
  /\ tokens[rec.fnArgs[2].v["signal"].v].signalled

Init ==
  /\ decorators \in DecoratorLists
  /\ built = "no"
  /\ layers = <<>>
  /\ applied = <<>>
  /\ calls = <<>>
  /\ patchCalls = [i \in 1..Len(decorators) |-> 0]
  /\ fnCalls = 0
  /\ form = ViaDecorate
  /\ tokens = <<>>
  /\ now = 0
  /\ heap = <<>>
  /\ refs = <<>>
  /\ memo = <<>>
  /\ chain = <<>>

\* decorate(fn, decorators): compose(...decorators)(fn); compose and pipe
\* throw when given no function.
Decorate ==
  /\ built = "no"
  /\ IF Len(decorators) = 0
       THEN /\ built' = "threw"
            /\ UNCHANGED <<layers, applied, patchCalls, memo>>
       ELSE /\ built' = "yes"
            /\ layers' = applyPipe(compose(decorators), <<>>)
            /\ applied' = compose(decorators)
            /\ patchCalls' = [i \in DOMAIN patchCalls |->
                                patchCalls[i] + callsOnApply(decorators[i])]
            /\ memo' = [i \in 1..Len(decorators) |-> {}]
  /\ UNCHANGED <<decorators, calls, fnCalls, form, timeVars, heapVars, chain>>

\* the decorated function is called
Start(args) ==
  /\ built = "yes"
  /\ Len(calls) < MaxCalls
  /\ calls' = Append(calls, enter(NewCall(args), 1, args))
  /\ patchCalls' = patchCallsAfter(1, args)
  /\ fnCalls' = fnCallsAfter(1, args)
  /\ tokens' = tokensAfter(1, args)
  /\ memo' = memoAfter(1, args, Len(calls) + 1)
  /\ UNCHANGED <<decorators, built, layers, applied, form, now, heapVars, chain>>

\* the caller invokes the decorated function; it awaits one call before it
\* makes the next
Invoke(args) ==
  /\ InFlight = {}
  /\ Start(args)

\* the patch function's result arrives: the layer merges; or its failure
\* arrives: the promise of the layer rejects and the inner function is not
\* called
PatchSettle(c) ==
  /\ calls[c].phase = "resolving"
  /\ LET rec == calls[c]
         n == Len(rec.hops)
         hop == rec.hops[n]
         fun == layerPatch(layers[hop.layer], hop.args)
         out == patchOutcome(fun, hop.opts, hop.token)
         patch == out.value[1].v
     IN calls' = [calls EXCEPT ![c] =
                    IF out.state = "rejected"
                      THEN [rec EXCEPT !.phase = "unwinding",
                                       !.inner = out,
                                       !.innerAt = now,
                                       !.trace = Append(@, event("failed", hop.layer))]
                      ELSE [rec EXCEPT !.phase = "merged",
                                       !.hops[n] = [hop EXCEPT
                                          !.done = TRUE,
                                          !.patch = patch,
                                          !.merged = mergeDeepLeft(
                                                       frameOpts(hop, seenAt(hop.layer)),
                                                       patch)],
                                       !.trace = Append(@, event("done", hop.layer))]]
  /\ UNCHANGED <<decorators, built, layers, applied, patchCalls, fnCalls, form,
                 timeVars, heapVars, otherVars>>

\* andThen(apply(fetch)): the layer calls its inner function
CallInner(c) ==
  /\ calls[c].phase = "merged"
  /\ LET rec == calls[c]
         hop == rec.hops[Len(rec.hops)]
         args == innerArgs(hop.url, hop.merged)
         called == [rec EXCEPT !.trace = Append(@, event("call", hop.layer))]
     IN /\ calls' = [calls EXCEPT ![c] = enter(called, hop.layer + 1, args)]
        /\ patchCalls' = patchCallsAfter(hop.layer + 1, args)
        /\ fnCalls' = fnCallsAfter(hop.layer + 1, args)
        /\ tokens' = tokensAfter(hop.layer + 1, args)
        /\ memo' = memoAfter(hop.layer + 1, args, c)
  /\ UNCHANGED <<decorators, built, layers, applied, form, now, heapVars, chain>>

\* the base function settles by itself: it resolves with its arguments, as
\* the fakeFetch of the test-suite, or rejects
FnSettle(c, state) ==
  /\ calls[c].phase = "fn"
  /\ ~Aborted(calls[c])
  /\ calls' = [calls EXCEPT ![c] =
                 [@ EXCEPT !.phase = "unwinding",
                           !.innerAt = now,
                           !.inner = [state |-> state,
                                      value |-> IF state = "fulfilled"
                                                  THEN calls[c].fnArgs
                                                  ELSE <<Err("failed")>>]]]
  /\ UNCHANGED <<decorators, built, layers, applied, patchCalls, fnCalls, form,
                 timeVars, heapVars, otherVars>>

\* the attempts the retrying layer j has made in the call
triesAt(rec, j) == SelectSeq(rec.tries, LAMBDA e : e.layer = j)

\* the retrying layers the rejection on its way out meets with attempts left
Retrying(rec) ==
  {j \in 1..Len(layers) :
     /\ layers[j].kind = "retry"
     /\ j < rec.layer
     /\ triesAt(rec, j) # <<>>
     /\ Len(triesAt(rec, j)) <= layers[j].patch.v}

\* the promise a retrying layer got back has rejected: the layer calls
\* its inner function again with the arguments of its first attempt
Reattempt(c) ==
  /\ calls[c].phase = "unwinding"
  /\ calls[c].inner.state = "rejected"
  /\ Retrying(calls[c]) # {}
  /\ LET rec == calls[c]
         j == CHOOSE j \in Retrying(rec) : \A k \in Retrying(rec) : k <= j
         args == triesAt(rec, j)[1].args
         again == [rec EXCEPT !.inner = NoOutcome,
                              !.tries = Append(@, try(j, args)),
                              !.trace = Append(@, event("try", j))]
     IN /\ calls' = [calls EXCEPT ![c] = enter(again, j + 1, args)]
        /\ patchCalls' = patchCallsAfter(j + 1, args)
        /\ fnCalls' = fnCallsAfter(j + 1, args)
        /\ tokens' = tokensAfter(j + 1, args)
        /\ memo' = memoAfter(j + 1, args, c)
  /\ UNCHANGED <<decorators, built, layers, applied, form, now, heapVars, chain>>

\* the promises of the layers settle, from the innermost outwards, and with
\* the outermost the promise the caller holds
Adopt(c) ==
  /\ calls[c].phase = "unwinding"
  /\ ~(calls[c].inner.state = "rejected" /\ Retrying(calls[c]) # {})
  /\ calls' = [calls EXCEPT ![c] =
                 [@ EXCEPT !.phase = "settled",
                           !.result = settleThrough(Len(calls[c].hops), calls[c].inner)]]
  /\ UNCHANGED <<decorators, built, layers, applied, patchCalls, fnCalls, form,
                 timeVars, heapVars, otherVars>>

\* the caller takes the result
Return(c) ==
  /\ calls[c].phase = "settled"
  /\ calls' = [calls EXCEPT ![c] = Returned]
  /\ UNCHANGED <<decorators, built, layers, applied, patchCalls, fnCalls, form,
                 timeVars, heapVars, otherVars>>

Step(c) ==
  \/ PatchSettle(c)
  \/ CallInner(c)
  \/ \E state \in {"fulfilled", "rejected"} : FnSettle(c, state)
  \/ Adopt(c)
  \/ Return(c)

Next ==
  \/ Decorate
  \/ \E args \in ArgsFor(layers) : Invoke(args)
  \/ \E c \in DOMAIN calls : Step(c)

Spec == Init /\ [][Next]_vars

(***************************************************************************)
(* One options layer over the base function, with patches and caller       *)
(* options drawn from all mappings of a nested shape: the merge on its     *)
(* own.                                                                    *)
(***************************************************************************)
InitMerge ==
  /\ decorators \in {<<options(p)>> : p \in DeepPatches}
  /\ built = "no"
  /\ layers = <<>>
  /\ applied = <<>>
  /\ calls = <<>>
  /\ patchCalls = [i \in 1..Len(decorators) |-> 0]
  /\ fnCalls = 0
  /\ form = ViaDecorate
  /\ tokens = <<>>
  /\ now = 0
  /\ heap = <<>>
  /\ refs = <<>>
  /\ memo = <<>>
  /\ chain = <<>>

NextMerge ==
  \/ Decorate
  \/ \E args \in DeepArgs : Invoke(args)
  \/ \E c \in DOMAIN calls : Step(c)

SpecMerge == InitMerge /\ [][NextMerge]_vars

(***************************************************************************)
(* Lists with patch functions and value functions that fail, next to ones  *)
(* that do not.  The caller awaits each call and keeps its result.         *)
(***************************************************************************)
Boom == Err("boom")
Denied == Err("denied")
Expired == Err("expired")

FailPool ==
  { options(Fn("raise", FALSE, "", Boom)),
    options(Fn("raise", TRUE, "", Denied)),
    headers(Fn("raise", TRUE, "", Expired)),
    method(Fn("raise", FALSE, "", Boom)),
    options(Fn("spread", FALSE, "", Obj("method" :> Str("GET")))),
    headers(Fn("const", TRUE, "", Obj(OtherAuth))),
    method(Str("DELETE")),
    pass }

FailLists == UNION {[1..n -> FailPool] : n \in 1..MaxDecorators}

FailArgs ==
  { <<Url>>,
    <<Url, Obj("method" :> Str("GET"))>>,
    <<Url, Obj("headers" :> Obj(ContentJson))>> }

\* the caller invokes the decorated function once the promises of its
\* earlier calls have settled; it keeps their results
Await(args) ==
  /\ \A c \in DOMAIN calls : calls[c].phase = "settled"
  /\ Start(args)

InitFail ==
  /\ decorators \in FailLists
  /\ built = "no"
  /\ layers = <<>>
  /\ applied = <<>>
  /\ calls = <<>>
  /\ patchCalls = [i \in 1..Len(decorators) |-> 0]
  /\ fnCalls = 0
  /\ form = ViaDecorate
  /\ tokens = <<>>
  /\ now = 0
  /\ heap = <<>>
  /\ refs = <<>>
  /\ memo = <<>>
  /\ chain = <<>>

NextFail ==
  \/ Decorate
  \/ \E args \in FailArgs : Await(args)
  \/ \E c \in DOMAIN calls : PatchSettle(c)
  \/ \E c \in DOMAIN calls : CallInner(c)
  \/ \E c \in DOMAIN calls : \E state \in {"fulfilled", "rejected"} : FnSettle(c, state)
  \/ \E c \in DOMAIN calls : Adopt(c)

SpecFail == InitFail /\ [][NextFail]_vars

(***************************************************************************)
(* timeout(ms, fn) over a base function that honours opts.signal, with     *)
(* time.  Continuations of settled promises run before any timer callback  *)
(* and before time moves on; a timer callback runs once its delay has      *)
(* elapsed.  The caller awaits each call before the next, or, in the       *)
(* second specification, lets calls overlap.                               *)
(***************************************************************************)
Delays == {1, 2}

TimeoutArgs == {<<Url>>}

\* the function is one whose promise the user settles at a time of its own
Slow(fun) ==
  /\ isFunction(fun)
  /\ IF fun.v.body = "keyed"
       THEN isFunction(fun.v.ret) /\ fun.v.ret.v.async
       ELSE fun.v.async

\* a continuation of the call is queued as a microtask
Microtask(rec) ==
  \/ rec.phase \in {"merged", "unwinding"}
  \/ /\ rec.phase = "resolving"
     /\ LET hop == rec.hops[Len(rec.hops)]
        IN ~Slow(layerPatch(layers[hop.layer], hop.args))

Quiet == \A c \in DOMAIN calls : ~Microtask(calls[c])

\* a slip: the timer is cleared once the call it was started for is over
DueWhilePending(k) ==
  /\ ~tokens[k].signalled
  /\ tokens[k].due <= now
  /\ \E c \in DOMAIN calls :
       /\ calls[c].phase \in {"resolving", "merged", "fn"}
       /\ \E p \in 1..Len(calls[c].hops) : calls[c].hops[p].token = k

\* a timer whose delay has elapsed and whose callback has not run
Due(k) == ~tokens[k].signalled /\ tokens[k].due <= now

\* a millisecond passes
Tick ==
  /\ now < MaxTime
  /\ Quiet
  /\ \A k \in DOMAIN tokens : ~Due(k)
  /\ now' = now + 1
  /\ UNCHANGED <<decorators, built, layers, applied, calls, patchCalls, fnCalls,
                 form, tokens, heapVars, otherVars>>

\* setTimeout(() => controller.abort(), ms): the callback runs
TimerFire(k) ==
  /\ Due(k)
  /\ Quiet
  /\ tokens' = [tokens EXCEPT ![k].signalled = TRUE]
  /\ UNCHANGED <<decorators, built, layers, applied, calls, patchCalls, fnCalls,
                 form, now, heapVars, otherVars>>

\* the base function sees its signal signalled and rejects
FnAbort(c) ==
  /\ calls[c].phase = "fn"
  /\ Aborted(calls[c])
  /\ calls' = [calls EXCEPT ![c] =
                 [@ EXCEPT !.phase = "unwinding",
                           !.innerAt = now,
                           !.inner = [state |-> "rejected",
                                      value |-> <<Err("AbortError")>>]]]
  /\ UNCHANGED <<decorators, built, layers, applied, patchCalls, fnCalls, form,
                 timeVars, heapVars, otherVars>>

InitTimeout ==
  /\ decorators \in {<<timeout(ms)>> : ms \in Delays}
  /\ built = "no"
  /\ layers = <<>>
  /\ applied = <<>>
  /\ calls = <<>>
  /\ patchCalls = [i \in 1..Len(decorators) |-> 0]
  /\ fnCalls = 0
  /\ form = ViaDecorate
  /\ tokens = <<>>
  /\ now = 0
  /\ heap = <<>>
  /\ refs = <<>>
  /\ memo = <<>>
  /\ chain = <<>>

NextTimeout ==
  \/ Decorate
  \/ \E args \in TimeoutArgs : Await(args)
  \/ \E c \in DOMAIN calls : PatchSettle(c)
  \/ \E c \in DOMAIN calls : CallInner(c)
  \/ \E c \in DOMAIN calls : \E state \in {"fulfilled", "rejected"} : FnSettle(c, state)
  \/ \E c \in DOMAIN calls : FnAbort(c)
  \/ \E c \in DOMAIN calls : Adopt(c)
  \/ Tick
  \/ \E k \in DOMAIN tokens : TimerFire(k)

\* the event loop runs what is queued; the base function reacts to its
\* signal; nothing obliges the base function to settle by itself
SpecTimeout ==
  /\ InitTimeout
  /\ [][NextTimeout]_vars
  /\ WF_vars(\E c \in DOMAIN calls : PatchSettle(c))
  /\ WF_vars(\E c \in DOMAIN calls : CallInner(c))
  /\ WF_vars(\E c \in DOMAIN calls : FnAbort(c))
  /\ WF_vars(\E c \in DOMAIN calls : Adopt(c))
  /\ WF_vars(\E k \in DOMAIN tokens : TimerFire(k))

NextTimeoutOverlap ==
  \/ Decorate
  \/ \E args \in TimeoutArgs : Start(args)
  \/ \E c \in DOMAIN calls : PatchSettle(c)
  \/ \E c \in DOMAIN calls : CallInner(c)
  \/ \E c \in DOMAIN calls : \E state \in {"fulfilled", "rejected"} : FnSettle(c, state)
  \/ \E c \in DOMAIN calls : FnAbort(c)
  \/ \E c \in DOMAIN calls : Adopt(c)
  \/ Tick
  \/ \E k \in DOMAIN tokens : TimerFire(k)

SpecTimeoutOverlap == InitTimeout /\ [][NextTimeoutOverlap]_vars

(***************************************************************************)
(* Lists of every kind of options-based layer, timeout and body among      *)
(* them, over a base function that settles by itself or is cancelled.  The *)
(* delay of timeout is 0 ms: its timer is due as soon as the queued        *)
(* continuations have run, and the clock need not move.  The caller awaits *)
(* each call before it makes the next.                                     *)
(***************************************************************************)
OutcomePool ==
  { options(Obj("method" :> Str("POST"))),
    options(Fn("const", TRUE, "", Obj("headers" :> Obj(ContentXml)))),
    option("body", Str("yeet")),
    method(Str("DELETE")),
    headers(Fn("const", FALSE, "", Obj(BearerAuth))),
    timeout(0) }

OutcomeLists ==
  UNION {[1..n -> OutcomePool] \cup
         {<<body>> \o rest : rest \in [1..(n - 1) -> OutcomePool]}
         : n \in 1..MaxDecorators}

OutcomeArgs == {<<Url>>, <<Url, Obj("headers" :> Obj(SomeHeader))>>}

\* with body outermost the payload comes first
OutcomeArgsFor(fn) ==
  IF fn # <<>> /\ fn[1].kind = "body"
    THEN {<<j>> \o a : j \in Payloads, a \in OutcomeArgs}
    ELSE OutcomeArgs

InitOutcome ==
  /\ decorators \in OutcomeLists
  /\ built = "no"
  /\ layers = <<>>
  /\ applied = <<>>
  /\ calls = <<>>
  /\ patchCalls = [i \in 1..Len(decorators) |-> 0]
  /\ fnCalls = 0
  /\ form = ViaDecorate
  /\ tokens = <<>>
  /\ now = 0
  /\ heap = <<>>
  /\ refs = <<>>
  /\ memo = <<>>
  /\ chain = <<>>

NextOutcome ==
  \/ Decorate
  \/ \E args \in OutcomeArgsFor(layers) : Invoke(args)
  \/ \E c \in DOMAIN calls : Step(c)
  \/ \E c \in DOMAIN calls : FnAbort(c)
  \/ \E k \in DOMAIN tokens : TimerFire(k)

SpecOutcome == InitOutcome /\ [][NextOutcome]_vars

(***************************************************************************)
(* Invocations that overlap: the caller does not await, and the steps of   *)
(* the calls in flight interleave in any order, up to the call of fn.      *)
(***************************************************************************)
OverlapPool ==
  { options(Fn("spread", TRUE, "", Obj("headers" :> Obj(ContentXml)))),
    headers(Fn("const", TRUE, "", Obj(OtherAuth))),
    method(Str("DELETE")) }

OverlapLists == UNION {[1..n -> OverlapPool] : n \in 1..MaxDecorators}

OverlapArgs ==
  { <<Url>>,
    <<Url, Obj("method" :> Str("GET"))>>,
    <<Url, Obj(("headers" :> Obj(SomeHeader)) @@ ("body" :> Str("yeet")))>> }

InitOverlap ==
  /\ decorators \in OverlapLists
  /\ built = "no"
  /\ layers = <<>>
  /\ applied = <<>>
  /\ calls = <<>>
  /\ patchCalls = [i \in 1..Len(decorators) |-> 0]
  /\ fnCalls = 0
  /\ form = ViaDecorate
  /\ tokens = <<>>
  /\ now = 0
  /\ heap = <<>>
  /\ refs = <<>>
  /\ memo = <<>>
  /\ chain = <<>>

NextOverlap ==
  \/ Decorate
  \/ \E args \in OverlapArgs : Start(args)
  \/ \E c \in DOMAIN calls : PatchSettle(c)
  \/ \E c \in DOMAIN calls : CallInner(c)

SpecOverlap == InitOverlap /\ [][NextOverlap]_vars

(***************************************************************************)
(* ramda: curry.  options, option and timeout are curried; method and      *)
(* headers are option with its first argument given.  A curried function   *)
(* that still awaits arguments records the ones received; placeholders     *)
(* are not represented.  A request function is the sequence of its         *)
(* wrappers, the base function having none.                                *)
(***************************************************************************)
Wrapped(ls) == [t |-> "wrapped", v |-> ls]

BaseFn == Wrapped(<<>>)

\* curry(fn) is curryN(fn.length, fn)
curryN(length, name) ==
  [t |-> "curried", v |-> [name |-> name, length |-> length, received |-> <<>>]]

\* a slip: the arguments received earlier are forgotten
combineForgetful(received, args) == args

\* _curryN: the arguments received so far, then the new ones
combine(received, args) == received \o args

RECURSIVE callCurried(_, _)
RECURSIVE uncurried(_, _)
\* the function under curry, called with all its arguments
uncurried(name, args) ==
  CASE name = "options" -> Wrapped(<<options(args[1])>> \o args[2].v)
    [] name = "option" -> Wrapped(<<option(args[1].v, args[2])>> \o args[3].v)
    [] name = "timeout" ->
         callCurried(callCurried(curryN(3, "option"),
                                 <<Str("signal"), Fn("abort", FALSE, "", args[1])>>),
                     <<args[2]>>)

\* _curryN: left <= 0 ? fn.apply(this, combined) : _curryN(length, combined, fn)
callCurried(f, args) ==
  LET combined == combine(f.v.received, args)
  IN IF f.v.length - Len(combined) <= 0
       THEN uncurried(f.v.name, combined)
       ELSE [f EXCEPT !.v.received = combined]

\* the exports of src/index.js
exported(name) ==
  CASE name = "options" -> curryN(2, "options")
    [] name = "option" -> curryN(3, "option")
    [] name = "method" -> callCurried(curryN(3, "option"), <<Str("method")>>)
    [] name = "headers" -> callCurried(curryN(3, "option"), <<Str("headers")>>)
    [] name = "timeout" -> curryN(2, "timeout")

RECURSIVE applyGroups(_, _)
\* f(group 1)(group 2)...
applyGroups(f, groups) ==
  IF groups = <<>> \/ f.t # "curried" THEN f
  ELSE applyGroups(callCurried(f, Head(groups)), Tail(groups))

\* the value of the expression name(group 1)(group 2)...
evaluate(expr) == applyGroups(exported(expr.name), expr.groups)

(***************************************************************************)
(* Expressions that are to build the same request function, family by      *)
(* family: the same arguments grouped differently; a value, a function     *)
(* returning it and an async function resolving to it; option and options  *)
(* with the keyed mapping.  The caller builds a function, calls it, builds *)
(* another of the same family and calls that, keeping what fn received.    *)
(***************************************************************************)
Expr(family, name, groups) == [family |-> family, name |-> name, groups |-> groups]

\* every way to split the arguments as into consecutive groups
RECURSIVE Groupings(_)
Groupings(as) ==
  IF Len(as) <= 1 THEN {<<as>>}
  ELSE {<<as>>} \cup
       UNION {{<<SubSeq(as, 1, n)>> \o g : g \in Groupings(SubSeq(as, n + 1, Len(as)))}
                : n \in 1..(Len(as) - 1)}

XmlHeaders == Obj("headers" :> Obj(ContentXml))

\* v, () => v, async () => v
Thunks(v) == {v, Fn("const", FALSE, "", v), Fn("const", TRUE, "", v)}

GroupedExprs ==
  {Expr("options grouped", "options", g) : g \in Groupings(<<XmlHeaders, BaseFn>>)} \cup
  {Expr("option grouped", "option", g) :
     g \in Groupings(<<Str("headers"), Fn("const", TRUE, "", Obj(BearerAuth)), BaseFn>>)} \cup
  {Expr("method grouped", "method", g) : g \in Groupings(<<Str("POST"), BaseFn>>)} \cup
  {Expr("headers grouped", "headers", g) : g \in Groupings(<<Obj(BearerAuth), BaseFn>>)} \cup
  {Expr("timeout grouped", "timeout", g) : g \in Groupings(<<Num(1), BaseFn>>)}

ThunkExprs ==
  {Expr("options thunks", "options", <<<<p, BaseFn>>>>) : p \in Thunks(XmlHeaders)} \cup
  {Expr("headers thunks", "headers", <<<<v>>, <<BaseFn>>>>) : v \in Thunks(Obj(ContentXml))} \cup
  {Expr("option thunks", "option", <<<<Str("method"), v>>, <<BaseFn>>>>) : v \in Thunks(Str("PUT"))}

KeyedExprs ==
  { Expr("method keyed", "option", <<<<Str("method"), Str("POST"), BaseFn>>>>),
    Expr("method keyed", "options", <<<<Obj("method" :> Str("POST")), BaseFn>>>>),
    Expr("headers keyed", "option",
         <<<<Str("headers"), Fn("spread", FALSE, "", Obj(ContentXml)), BaseFn>>>>),
    Expr("headers keyed", "option",
         <<<<Str("headers"), Fn("const", TRUE, "", Obj(ContentXml)), BaseFn>>>>),
    Expr("headers keyed", "options", <<<<XmlHeaders, BaseFn>>>>) }

Exprs == GroupedExprs \cup ThunkExprs \cup KeyedExprs

ExprArgs ==
  { <<Url>>,
    <<Url, Obj("method" :> Str("GET"))>>,
    <<Url, Obj(("headers" :> Obj(ContentJson @@ SomeHeader)))>> }

\* the expression is evaluated; what it gives is called next if it is a
\* request function, and is of no use if it still awaits arguments
Build ==
  /\ built = "no"
  /\ LET f == evaluate(form)
     IN IF f.t = "wrapped"
          THEN /\ built' = "yes"
               /\ layers' = f.v
               /\ decorators' = f.v
               /\ applied' = f.v
               /\ patchCalls' = [i \in 1..Len(f.v) |-> 0]
          ELSE /\ built' = "partial"
               /\ UNCHANGED <<layers, decorators, applied, patchCalls>>
  /\ UNCHANGED <<calls, fnCalls, form, timeVars, heapVars, otherVars>>

\* the caller turns to another expression of the family
Rebuild(expr) ==
  /\ built = "yes"
  /\ Len(calls) < MaxCalls
  /\ \A c \in DOMAIN calls : calls[c].fnArgs # <<>>
  /\ expr.family = form.family
  /\ expr # form
  /\ form' = expr
  /\ built' = "no"
  /\ UNCHANGED <<decorators, layers, applied, calls, patchCalls, fnCalls,
                 timeVars, heapVars, otherVars>>

\* the function is called once fn has been called in the earlier calls
Again(args) ==
  /\ \A c \in DOMAIN calls : calls[c].fnArgs # <<>>
  /\ Start(args)

InitExprs ==
  /\ form \in Exprs
  /\ decorators = <<>>
  /\ built = "no"
  /\ layers = <<>>
  /\ applied = <<>>
  /\ calls = <<>>
  /\ patchCalls = <<>>
  /\ fnCalls = 0
  /\ tokens = <<>>
  /\ now = 0
  /\ heap = <<>>
  /\ refs = <<>>
  /\ memo = <<>>
  /\ chain = <<>>

NextExprs ==
  \/ Build
  \/ \E expr \in Exprs : Rebuild(expr)
  \/ \E args \in ExprArgs : Again(args)
  \/ \E c \in DOMAIN calls : PatchSettle(c)
  \/ \E c \in DOMAIN calls : CallInner(c)

SpecExprs == InitExprs /\ [][NextExprs]_vars

(***************************************************************************)
(* The merge on objects.  A mapping that exists as an object has an        *)
(* address; heap[a] is the object at address a, whose values are strings,  *)
(* arrays, or references to other objects.  mergeWithKey builds its result *)
(* in a new object (var result = {}) and copies values into it; a nested   *)
(* mapping present on one side only is copied as a reference.              *)
(***************************************************************************)
Ref(a) == [t |-> "ref", v |-> a]

isRef(x) == x.t = "ref"

\* the keys of a mapping in the order they are enumerated
keysOf(m) == SelectSeq(KeyOrder, LAMBDA k : k \in DOMAIN m)

RECURSIVE allocKeys(_, _, _, _)
\* the heap h after the mapping m has been created as an object, nested
\* mappings as objects of their own, and the address of the object
allocKeys(h, m, ks, acc) ==
  IF ks = <<>> THEN [heap |-> Append(h, acc), addr |-> Len(h) + 1]
  ELSE LET k == Head(ks)
       IN IF isObject(m[k])
            THEN LET sub == allocKeys(h, m[k].v, keysOf(m[k].v), EmptyMap)
                 IN allocKeys(sub.heap, m, Tail(ks), acc @@ (k :> Ref(sub.addr)))
            ELSE allocKeys(h, m, Tail(ks), acc @@ (k :> m[k]))

alloc(h, m) == allocKeys(h, m, keysOf(m), EmptyMap)

RECURSIVE allocList(_, _)
\* the mappings ms created one after the other
allocList(h, ms) ==
  IF ms = <<>> THEN [heap |-> h, addrs |-> <<>>]
  ELSE LET first == alloc(h, Head(ms))
           rest == allocList(first.heap, Tail(ms))
       IN [heap |-> rest.heap, addrs |-> <<first.addr>> \o rest.addrs]

RECURSIVE valueAt(_, _)
\* the mapping that the object at address a is, read at every depth
valueAt(h, a) ==
  [k \in DOMAIN h[a] |-> IF isRef(h[a][k]) THEN Obj(valueAt(h, h[a][k].v)) ELSE h[a][k]]

\* a slip: the result is written into the left operand, Object.assign(l, ...)
storeInLeft(h, l, obj) == [heap |-> [h EXCEPT ![l] = obj], addr |-> l]

\* var result = {}; ...; return result: the result is an object of its own
store(h, l, obj) == [heap |-> Append(h, obj), addr |-> Len(h) + 1]

RECURSIVE mergeKeysOnHeap(_, _, _, _, _)
\* mergeDeepLeft(l, r) for the objects at addresses l and r: the loop of
\* mergeWithKey over the keys ks still to copy, acc being the result so far
mergeKeysOnHeap(h, l, r, ks, acc) ==
  IF ks = <<>> THEN store(h, l, acc)
  ELSE LET k == Head(ks)
       IN IF k \in DOMAIN h[l]
            THEN IF k \in DOMAIN h[r] /\ isRef(h[l][k]) /\ isRef(h[r][k])
                   THEN LET la == h[l][k].v
                            ra == h[r][k].v
                            sub == mergeKeysOnHeap(h, la, ra,
                                                   keysOf(h[la]) \o
                                                   SelectSeq(keysOf(h[ra]),
                                                             LAMBDA x : x \notin DOMAIN h[la]),
                                                   EmptyMap)
                        IN mergeKeysOnHeap(sub.heap, l, r, Tail(ks),
                                           acc @@ (k :> Ref(sub.addr)))
                   ELSE mergeKeysOnHeap(h, l, r, Tail(ks), acc @@ (k :> h[l][k]))
            ELSE mergeKeysOnHeap(h, l, r, Tail(ks), acc @@ (k :> h[r][k]))

mergeOnHeap(h, l, r) ==
  mergeKeysOnHeap(h, l, r,
                  keysOf(h[l]) \o SelectSeq(keysOf(h[r]), LAMBDA x : x \notin DOMAIN h[l]),
                  EmptyMap)

\* static patches and caller options with a nested mapping
HeapPatches ==
  { "method" :> Str("POST"),
    "headers" :> Obj(ContentXml @@ SomeHeader),
    ("headers" :> Obj(BearerAuth)) @@ ("body" :> Str("patched")),
    ("method" :> Str("DELETE")) @@ ("headers" :> Str("none")) }

HeapLists == UNION {[1..n -> {options(Obj(m)) : m \in HeapPatches}] : n \in 1..MaxDecorators}

HeapOpts ==
  { EmptyMap,
    "method" :> Str("GET"),
    "headers" :> Obj(ContentJson),
    ("headers" :> Obj(ContentJson @@ BearerAuth)) @@ ("body" :> Arr(<<"a">>)) }

\* the patch objects, created before the decorators are
PatchObjects == allocList(<<>>, [i \in 1..Len(decorators) |-> decorators[i].patch.v])

\* a call whose opts the wrapper has not received: opts = {} makes a new one
Omitted == [given |-> FALSE, value |-> EmptyMap]

Given(o) == [given |-> TRUE, value |-> o]

\* the decorated function is called with opts, an object the caller made,
\* or without, once fn has been called in the earlier calls; before is the
\* heap as the call finds it
HeapInvoke(o) ==
  /\ built = "yes"
  /\ Len(refs) < MaxCalls
  /\ \A c \in DOMAIN refs : refs[c].fn # 0
  /\ LET made == alloc(heap, o.value)
     IN /\ heap' = made.heap
        /\ refs' = Append(refs, [opts |-> IF o.given THEN made.addr ELSE 0,
                                 given |-> o, before |-> IF o.given THEN made.heap ELSE heap,
                                 cur |-> made.addr, layer |-> 1, fn |-> 0])
  /\ UNCHANGED <<decorators, built, layers, applied, calls, patchCalls, fnCalls,
                 form, timeVars, otherVars>>

\* the layer the call has reached merges what it received with its patch
HeapMerge(c) ==
  /\ refs[c].layer <= Len(layers)
  /\ LET out == mergeOnHeap(heap, refs[c].cur, PatchObjects.addrs[refs[c].layer])
     IN /\ heap' = out.heap
        /\ refs' = [refs EXCEPT ![c].cur = out.addr, ![c].layer = @ + 1]
  /\ UNCHANGED <<decorators, built, layers, applied, calls, patchCalls, fnCalls,
                 form, timeVars, otherVars>>

\* the innermost layer calls fn with the object it merged
HeapCallFn(c) ==
  /\ refs[c].layer = Len(layers) + 1
  /\ refs[c].fn = 0
  /\ refs' = [refs EXCEPT ![c].fn = refs[c].cur]
  /\ UNCHANGED <<decorators, built, layers, applied, calls, patchCalls, fnCalls,
                 form, timeVars, heap, otherVars>>

InitHeap ==
  /\ decorators \in HeapLists
  /\ built = "no"
  /\ layers = <<>>
  /\ applied = <<>>
  /\ calls = <<>>
  /\ patchCalls = [i \in 1..Len(decorators) |-> 0]
  /\ fnCalls = 0
  /\ form = ViaDecorate
  /\ tokens = <<>>
  /\ now = 0
  /\ heap = PatchObjects.heap
  /\ refs = <<>>
  /\ memo = <<>>
  /\ chain = <<>>

NextHeap ==
  \/ Decorate
  \/ \E o \in {Omitted} \cup {Given(m) : m \in HeapOpts} : HeapInvoke(o)
  \/ \E c \in DOMAIN refs : HeapMerge(c)
  \/ \E c \in DOMAIN refs : HeapCallFn(c)

SpecHeap == InitHeap /\ [][NextHeap]_vars

(***************************************************************************)
(* Observations the properties below are stated on.                        *)
(***************************************************************************)
Records == {calls[c] : c \in DOMAIN calls}

\* the layer recorded as hop p of rec has called its inner function
InnerCalled(rec, p) == p < Len(rec.hops) \/ rec.fnArgs # <<>>

\* the arguments that inner function was called with
InnerReceived(rec, p) ==
  IF p < Len(rec.hops) THEN rec.hops[p + 1].args ELSE rec.fnArgs

\* the base function has been called in rec
FnCalled(rec) == rec.fnArgs # <<>>

\* hops of any call at which options has called its inner function, as
\* <<opts received, resolved patch, arguments handed on>>
Handovers ==
  UNION {{<<rec.hops[p].opts, rec.hops[p].patch, InnerReceived(rec, p)>> :
            p \in {q \in 1..Len(rec.hops) : InnerCalled(rec, q)}} : rec \in Records}

BothMappings(a, b) == isObject(a) /\ isObject(b)

(***************************************************************************)
(* C1.  For every call options(patch, fn)(url, opts) and every key k       *)
(* present in both opts and the resolved patch whose two values are not    *)
(* both plain mappings, fn receives opts[k] under k: the value the         *)
(* decorator injects for k never reaches fn.                               *)
(***************************************************************************)
C1_CallerValueWins ==
  \A h \in Handovers :
    \A k \in DOMAIN h[1] \cap DOMAIN h[2] :
      ~BothMappings(h[1][k], h[2][k]) =>
        /\ Len(h[3]) = 2
        /\ isObject(h[3][2])
        /\ k \in DOMAIN h[3][2].v
        /\ h[3][2].v[k] = h[1][k]

\* fn has been called after a conflict on a key whose two values differ and
\* are not both mappings, through a patch function
C1_Witness ==
  \E rec \in Records :
    /\ FnCalled(rec)
    /\ Len(rec.args) = 2
    /\ isFunction(layers[1].patch)
    /\ \E k \in DOMAIN rec.args[2].v \cap DOMAIN rec.hops[1].patch :
         /\ rec.args[2].v[k] # rec.hops[1].patch[k]
         /\ ~isObject(rec.args[2].v[k])
         /\ isObject(rec.hops[1].patch[k])

(***************************************************************************)
(* C4.  For every call options(patch, fn)(url, opts) and every key present *)
(* in both opts and the resolved patch whose two values are both plain     *)
(* mappings, fn receives the recursive merge of the two values: at every   *)
(* depth a sub-key present on one side only is kept with its value and a   *)
(* conflicting sub-key that is not a mapping on both sides takes the       *)
(* caller's value.                                                         *)
(***************************************************************************)
RECURSIVE MergedAtEveryDepth(_, _, _)
MergedAtEveryDepth(l, r, out) ==
  /\ DOMAIN out = DOMAIN l \cup DOMAIN r
  /\ \A k \in DOMAIN l \ DOMAIN r : out[k] = l[k]
  /\ \A k \in DOMAIN r \ DOMAIN l : out[k] = r[k]
  /\ \A k \in DOMAIN l \cap DOMAIN r :
       IF BothMappings(l[k], r[k])
         THEN isObject(out[k]) /\ MergedAtEveryDepth(l[k].v, r[k].v, out[k].v)
         ELSE out[k] = l[k]

C4_NestedMappingsMerge ==
  \A h \in Handovers :
    \A k \in DOMAIN h[1] \cap DOMAIN h[2] :
      BothMappings(h[1][k], h[2][k]) =>
        /\ Len(h[3]) = 2
        /\ k \in DOMAIN h[3][2].v
        /\ isObject(h[3][2].v[k])
        /\ MergedAtEveryDepth(h[1][k].v, h[2][k].v, h[3][2].v[k].v)

\* fn has been called after caller and patch both gave headers with a
\* mapping under "nested" that conflict on x, and each a sub-key of its own
C4_Witness ==
  \E rec \in Records :
    /\ FnCalled(rec)
    /\ Len(rec.args) = 2
    /\ LET o == rec.args[2].v
           q == rec.hops[1].patch
       IN /\ "headers" \in DOMAIN o \cap DOMAIN q
          /\ BothMappings(o["headers"], q["headers"])
          /\ "nested" \in DOMAIN o["headers"].v \cap DOMAIN q["headers"].v
          /\ BothMappings(o["headers"].v["nested"], q["headers"].v["nested"])
          /\ o["headers"].v["nested"].v = ("x" :> Str("1"))
          /\ q["headers"].v["nested"].v = ("x" :> Str("2"))
          /\ "Content-Type" \in DOMAIN q["headers"].v \ DOMAIN o["headers"].v
          /\ rec.fnArgs[2].v["headers"].v["nested"].v["x"] = Str("1")

(***************************************************************************)
(* C5.  For every call options(patch, fn)(url, opts) the key set of the    *)
(* mapping fn receives is exactly the union of the keys of opts and of the *)
(* resolved patch: a key only in opts keeps the caller's value, a key only *)
(* in the patch keeps the patch's value, and no other key appears.  When   *)
(* opts is omitted, fn receives exactly the resolved patch.                *)
(***************************************************************************)
C5_KeysAreTheUnion ==
  /\ \A h \in Handovers :
       /\ Len(h[3]) = 2
       /\ isObject(h[3][2])
       /\ DOMAIN h[3][2].v = DOMAIN h[1] \cup DOMAIN h[2]
       /\ \A k \in DOMAIN h[1] \ DOMAIN h[2] : h[3][2].v[k] = h[1][k]
       /\ \A k \in DOMAIN h[2] \ DOMAIN h[1] : h[3][2].v[k] = h[2][k]
  /\ \A rec \in Records :
       (FnCalled(rec) /\ Len(rec.args) = 1 /\ Len(rec.hops) = 1) =>
         rec.fnArgs = <<rec.args[1], Obj(rec.hops[1].patch)>>

\* fn has been called with keys from both sides, and once with opts omitted
C5_Witness ==
  /\ \E h \in Handovers :
       /\ DOMAIN h[1] \ DOMAIN h[2] # {}
       /\ DOMAIN h[2] \ DOMAIN h[1] # {}
  /\ fnCalls >= 1

(***************************************************************************)
(* What a decorator of the list injects, read off the decorator itself,    *)
(* and the caller's options, read off the arguments of the call.           *)
(***************************************************************************)
Injected(d, args) ==
  CASE d.kind = "pass" -> EmptyMap
    [] d.kind = "body" -> bodyPatch(args[1])
    [] d.kind = "options" /\ ~isFunction(d.patch) -> d.patch.v
    [] d.kind = "options" /\ isFunction(d.patch) ->
         IF d.patch.v.body = "keyed"
           THEN d.patch.v.key :> (IF isFunction(d.patch.v.ret)
                                    THEN d.patch.v.ret.v.ret
                                    ELSE d.patch.v.ret)
           ELSE d.patch.v.ret.v

BodyFirst == decorators # <<>> /\ decorators[1].kind = "body"

CallerOptions(rec) ==
  LET n == IF BodyFirst THEN 3 ELSE 2
  IN IF Len(rec.args) >= n THEN rec.args[n].v ELSE EmptyMap

\* caller first, then the decorators in the order of the list
Providers(rec) ==
  <<CallerOptions(rec)>> \o
  [i \in 1..Len(decorators) |-> Injected(decorators[i], rec.args)]

\* the first of the mappings ms that has key k
FirstWith(ms, k) ==
  ms[CHOOSE i \in 1..Len(ms) :
       k \in DOMAIN ms[i] /\ \A j \in 1..(i - 1) : k \notin DOMAIN ms[j]]

\* the values given under k that are mappings, in order
MappingsUnder(ms, k) ==
  LET has == SelectSeq(ms, LAMBDA m : k \in DOMAIN m /\ isObject(m[k]))
  IN [i \in 1..Len(has) |-> has[i][k].v]

AllKeys(ms) == UNION {DOMAIN ms[i] : i \in 1..Len(ms)}

SomeOptionsLayer == \E i \in 1..Len(decorators) : decorators[i].kind # "pass"

(***************************************************************************)
(* C2.  When several decorators of the list given to decorate inject the   *)
(* same key, what was passed earlier takes precedence: fn receives the     *)
(* caller's value if opts has the key, else the value of the decorator     *)
(* listed first; under a mapping-valued key fn receives the union of the   *)
(* sub-keys given by the caller and the decorators, with the same          *)
(* precedence for every conflicting sub-key.                               *)
(***************************************************************************)
C2_EarlierTakesPrecedence ==
  \A rec \in Records :
    (FnCalled(rec) /\ SomeOptionsLayer) =>
      /\ Len(rec.fnArgs) = 2
      /\ isObject(rec.fnArgs[2])
      /\ LET M == rec.fnArgs[2].v
             ps == Providers(rec)
         IN /\ DOMAIN M = AllKeys(ps)
            /\ \A k \in DOMAIN M :
                 LET v == FirstWith(ps, k)[k]
                     subs == MappingsUnder(ps, k)
                 IN IF ~isObject(v)
                      THEN M[k] = v
                      ELSE /\ isObject(M[k])
                           /\ DOMAIN M[k].v = AllKeys(subs)
                           /\ \A sk \in DOMAIN M[k].v :
                                ~isObject(FirstWith(subs, sk)[sk]) =>
                                  M[k].v[sk] = FirstWith(subs, sk)[sk]

\* fn has been called through two decorators that give different values for
\* one header, with caller headers that conflict with the second only
C2_Witness ==
  \E rec \in Records :
    /\ FnCalled(rec)
    /\ Len(decorators) = 2
    /\ LET o == CallerOptions(rec)
           a == Injected(decorators[1], rec.args)
           b == Injected(decorators[2], rec.args)
       IN /\ "headers" \in DOMAIN o \cap DOMAIN a \cap DOMAIN b
          /\ isObject(o["headers"]) /\ isObject(a["headers"]) /\ isObject(b["headers"])
          /\ a["headers"].v = BearerAuth
          /\ b["headers"].v = OtherAuth @@ ContentXml
          /\ o["headers"].v = ContentJson
          /\ rec.fnArgs[2].v["headers"].v = BearerAuth @@ ContentJson

(***************************************************************************)
(* C3.  For a list [d1, ..., dn] with n >= 1, decorate(fn, [d1, ..., dn])  *)
(* is d1(d2(...dn(fn))): dn is applied to fn first and d1 is the outermost *)
(* wrapper.  The caller's arguments reach d1's function unchanged in       *)
(* number and order, and at call time the stages run in list order d1,     *)
(* ..., dn and only then fn.                                               *)
(***************************************************************************)
C3_FirstListedIsOutermost ==
  built = "yes" =>
    /\ Len(decorators) >= 1
    /\ layers = decorators
    /\ applied = [i \in 1..Len(decorators) |-> decorators[Len(decorators) + 1 - i]]
    /\ \A rec \in Records :
         rec.phase # "returned" =>
           /\ rec.trace # <<>>
           /\ rec.trace[1].layer = 1
           /\ \A q \in 1..Len(rec.trace) :
                /\ rec.trace[q].layer \in 1..Len(decorators) =>
                     rec.trace[q].dec = decorators[rec.trace[q].layer]
                /\ \A r \in 1..(q - 1) : rec.trace[r].layer <= rec.trace[q].layer
                /\ rec.trace[q].ev = "fn" =>
                     \A i \in 1..Len(decorators) :
                       \E r \in 1..(q - 1) : rec.trace[r].layer = i
           /\ rec.hops # <<>> =>
                /\ \A i \in 1..(rec.hops[1].layer - 1) : decorators[i].kind = "pass"
                /\ rec.hops[1].args = rec.args
           /\ (FnCalled(rec) /\ rec.hops = <<>>) => rec.fnArgs = rec.args

\* fn has been called through two different decorators, opts omitted
C3_Witness ==
  \E rec \in Records :
    /\ FnCalled(rec)
    /\ Len(decorators) = 2
    /\ decorators[1] # decorators[2]
    /\ decorators[1].kind = "options"
    /\ decorators[2].kind = "options"
    /\ Len(rec.args) = 1

(***************************************************************************)
(* C6.  decorate(fn, []) with an empty decorator list returns a function   *)
(* that behaves identically to fn: decorate does not fail on an empty      *)
(* list, and the function it returns calls fn with the caller's arguments. *)
(***************************************************************************)
C6_EmptyListIsIdentity ==
  (decorators = <<>> /\ built # "no") =>
    /\ built = "yes"
    /\ \A rec \in Records : FnCalled(rec) => rec.fnArgs = rec.args

(***************************************************************************)
(* C7.  A function patch given to options, and a function value given to   *)
(* option, headers or method, is never invoked when the decorator is       *)
(* constructed or applied to fn; during each invocation of the decorated   *)
(* function it is invoked exactly once, when the invocation reaches the    *)
(* decorator's layer, so after k invocations it has been invoked exactly k *)
(* times.                                                                  *)
(***************************************************************************)
\* the decorator closes over a function the user supplied
HasUserFunction(d) ==
  /\ d.kind = "options"
  /\ isFunction(d.patch)
  /\ d.patch.v.body = "keyed" => isFunction(d.patch.v.ret)

\* invocation c has reached layer j
Reached(c, j) ==
  \/ calls[c].phase \in {"unwinding", "settled", "returned"}
  \/ calls[c].layer >= j

C7_PatchRunsOncePerInvocation ==
  /\ calls = <<>> => \A j \in DOMAIN patchCalls : patchCalls[j] = 0
  /\ \A j \in 1..Len(decorators) :
       patchCalls[j] =
         IF HasUserFunction(decorators[j])
           THEN Cardinality({c \in DOMAIN calls : Reached(c, j)})
           ELSE 0
  /\ \A j \in 1..Len(decorators) :
       (HasUserFunction(decorators[j]) /\ InFlight = {}) =>
         patchCalls[j] = Len(calls)

\* two invocations have completed through two layers with user functions,
\* one given to options and one given to headers
C7_Witness ==
  /\ Len(calls) = 2
  /\ InFlight = {}
  /\ Len(decorators) = 2
  /\ HasUserFunction(decorators[1])
  /\ HasUserFunction(decorators[2])
  /\ decorators[1].patch.v.body = "keyed"
  /\ decorators[2].patch.v.body # "keyed"
  /\ patchCalls = <<2, 2>>

(***************************************************************************)
(* C8.  Within one invocation each layer's patch resolution completes      *)
(* before that layer calls its inner function; the patches are resolved in *)
(* list order d1, ..., dn, each one starting only after the previous one   *)
(* has finished, and fn is called only after all of them have been         *)
(* resolved, however long an asynchronous patch takes to settle.           *)
(***************************************************************************)
\* an event ev of the i-th decorator of the list occurs in trace before q
Before(trace, q, ev, i) ==
  \E r \in 1..(q - 1) :
    /\ trace[r].ev = ev
    /\ trace[r].layer = i
    /\ trace[r].dec = decorators[i]

Resolves(i) == decorators[i].kind # "pass"

C8_ResolutionInListOrder ==
  \A rec \in Records :
    \A q \in 1..Len(rec.trace) :
      LET e == rec.trace[q]
      IN /\ e.ev = "call" => Before(rec.trace, q, "done", e.layer)
         /\ e.ev = "done" => Before(rec.trace, q, "start", e.layer)
         /\ e.ev = "start" =>
              /\ e.dec = decorators[e.layer]
              /\ \A i \in 1..(e.layer - 1) :
                   Resolves(i) => Before(rec.trace, q, "done", i)
         /\ e.ev = "fn" =>
              \A i \in 1..Len(decorators) :
                Resolves(i) => Before(rec.trace, q, "done", i)

\* fn has been called after two different asynchronous patches were resolved
C8_Witness ==
  \E rec \in Records :
    /\ FnCalled(rec)
    /\ Len(decorators) = 2
    /\ decorators[1] # decorators[2]
    /\ \A i \in 1..2 :
         /\ HasUserFunction(decorators[i])
         /\ IF decorators[i].patch.v.body = "keyed"
              THEN decorators[i].patch.v.ret.v.async
              ELSE decorators[i].patch.v.async

(***************************************************************************)
(* The serialization expected for the payloads, written out.               *)
(***************************************************************************)
Serialized(json) ==
  CASE json = Obj("hello" :> Str("world")) -> Str("{\"hello\":\"world\"}")
    [] json = Str("hi") -> Str("\"hi\"")

ThroughBody(rec) == BodyFirst /\ FnCalled(rec)

(***************************************************************************)
(* C9, as claimed.  For every call body(fn)(json, url, opts), whatever     *)
(* opts contains, the mapping fn receives has method 'POST',               *)
(* headers['Content-Type'] 'application/json' and body equal to the JSON   *)
(* serialization of json.                                                  *)
(***************************************************************************)
C9_BodyForcesItsEntries ==
  \A rec \in Records :
    ThroughBody(rec) =>
      LET M == rec.fnArgs[2].v
      IN /\ {"method", "headers", "body"} \subseteq DOMAIN M
         /\ M["method"] = Str("POST")
         /\ isObject(M["headers"])
         /\ "Content-Type" \in DOMAIN M["headers"].v
         /\ M["headers"].v["Content-Type"] = Str("application/json")
         /\ M["body"] = Serialized(rec.args[1])

(***************************************************************************)
(* C9, amended.  For every call body(fn)(json, url, opts), the mapping fn  *)
(* receives has method 'POST', headers['Content-Type'] 'application/json'  *)
(* and body equal to the JSON serialization of json, except for the        *)
(* entries opts itself supplies (method, body, headers['Content-Type'], or *)
(* a headers value that is not a plain mapping): for those fn receives the *)
(* caller's value.                                                         *)
(***************************************************************************)
C9_BodyEntriesUnlessCallerSupplies ==
  \A rec \in Records :
    ThroughBody(rec) =>
      LET M == rec.fnArgs[2].v
          o == CallerOptions(rec)
      IN /\ {"method", "headers", "body"} \subseteq DOMAIN M
         /\ M["method"] = IF "method" \in DOMAIN o THEN o["method"] ELSE Str("POST")
         /\ M["body"] = IF "body" \in DOMAIN o THEN o["body"]
                        ELSE Serialized(rec.args[1])
         /\ IF "headers" \in DOMAIN o /\ ~isObject(o["headers"])
              THEN M["headers"] = o["headers"]
              ELSE /\ isObject(M["headers"])
                   /\ "Content-Type" \in DOMAIN M["headers"].v
                   /\ M["headers"].v["Content-Type"] =
                        IF "headers" \in DOMAIN o /\ "Content-Type" \in DOMAIN o["headers"].v
                          THEN o["headers"].v["Content-Type"]
                          ELSE Str("application/json")

\* fn has been called through body with a caller's method GET, which it
\* received, next to body's Content-Type and serialized payload
C9_Witness ==
  \E rec \in Records :
    /\ ThroughBody(rec)
    /\ decorators = <<body>>
    /\ rec.args[1] = Obj("hello" :> Str("world"))
    /\ CallerOptions(rec) = ("method" :> Str("GET"))
    /\ rec.fnArgs[2].v =
         ("method" :> Str("GET")) @@
         ("headers" :> Obj(ContentJson)) @@
         ("body" :> Str("{\"hello\":\"world\"}"))

(***************************************************************************)
(* C10.  body(fn)(json, url, opts) calls fn exactly once, with the two     *)
(* arguments (url, M), never passing json positionally; M contains every   *)
(* key of opts and every sub-key of opts.headers that body does not itself *)
(* set, with the caller's values, next to the entries of body that opts    *)
(* does not supply.  With opts omitted, M is exactly {method: 'POST',       *)
(* headers: {'Content-Type': 'application/json'}, body: serialized json}.  *)
(***************************************************************************)
BodySets == {"method", "headers", "body"}

TimedOut(rec) == rec.hops # <<>> /\ rec.hops[1].token # 0

TokenOf(rec) == tokens[rec.hops[1].token]

\* fn has settled by itself, with its own result
OwnOutcome(rec) ==
  \/ rec.inner = [state |-> "fulfilled", value |-> rec.fnArgs]
  \/ rec.inner = [state |-> "rejected", value |-> <<Err("failed")>>]

Cancelled == [state |-> "rejected", value |-> <<Err("AbortError")>>]

\* fn is pending when the delay of the invocation's token has elapsed and
\* its timer has run; a settlement of fn in the very millisecond the delay
\* ends, before the timer's callback, counts as settled by then
Overdue(c) ==
  /\ c \in DOMAIN calls
  /\ calls[c].phase = "fn"
  /\ TimedOut(calls[c])
  /\ TokenOf(calls[c]).due <= now
  /\ TokenOf(calls[c]).signalled

RejectedAsCancelled(c) ==
  /\ c \in DOMAIN calls
  /\ calls[c].phase = "settled"
  /\ calls[c].result = Cancelled

C11_Race ==
  \A rec \in Records :
    TimedOut(rec) =>
      /\ TokenOf(rec).due = rec.hops[1].at + tokenDelay(decorators[1].patch)
      /\ now > TokenOf(rec).due => TokenOf(rec).signalled
      /\ FnCalled(rec) => rec.fnAt = rec.hops[1].at
      /\ (rec.inner.state # "pending" /\ rec.innerAt < TokenOf(rec).due) =>
           /\ OwnOutcome(rec)
           /\ rec.phase = "settled" => rec.result = rec.inner
      /\ (rec.inner.state # "pending" /\ rec.innerAt > TokenOf(rec).due) =>
           /\ rec.inner = Cancelled
           /\ rec.phase = "settled" => rec.result = Cancelled
      /\ (rec.phase = "fn" /\ TokenOf(rec).signalled) => rec.inner.state = "pending"

(***************************************************************************)
(* C11.  With a base function fn that rejects with a cancellation error as *)
(* soon as the token under opts.signal signals: the token's delay runs     *)
(* from the invocation, fn is called at once, and the promise of           *)
(* timeout(ms, fn)(url) settles as fn does whenever fn settles before ms   *)
(* has elapsed; when ms has elapsed with fn pending, the token signals and *)
(* the promise rejects with the cancellation error.                        *)
(***************************************************************************)
C11_TimeoutRace ==
  /\ []C11_Race
  /\ \A c \in 1..(MaxCalls + 1) : Overdue(c) ~> RejectedAsCancelled(c)

\* one invocation settled with fn's result before its delay had elapsed,
\* another was rejected as cancelled after its delay
C11_Witness ==
  \E a, b \in Records :
    /\ TimedOut(a) /\ TimedOut(b)
    /\ a.phase = "settled" /\ a.innerAt < TokenOf(a).due
    /\ a.result = [state |-> "fulfilled", value |-> a.fnArgs]
    /\ b.phase = "settled" /\ b.innerAt >= TokenOf(b).due
    /\ b.result = Cancelled

(***************************************************************************)
(* C12.  Every invocation of a timeout(ms, fn)-decorated function creates  *)
(* a new cancellation token: no two invocations, one after the other or    *)
(* overlapping, hand the same token to fn, and a token is signalled only   *)
(* through its own timer, never because another invocation's token is.     *)
(***************************************************************************)
C12_FreshTokenPerInvocation ==
  /\ Len(tokens) = Cardinality({c \in DOMAIN calls : TimedOut(calls[c])})
  /\ \A c, d \in DOMAIN calls :
       (c # d /\ TimedOut(calls[c]) /\ TimedOut(calls[d])) =>
         /\ calls[c].hops[1].token # calls[d].hops[1].token
         /\ (FnCalled(calls[c]) /\ FnCalled(calls[d])) =>
              calls[c].fnArgs[2].v["signal"] # calls[d].fnArgs[2].v["signal"]
  /\ \A rec \in Records :
       (TimedOut(rec) /\ FnCalled(rec)) =>
         rec.fnArgs[2].v["signal"] = Sig(rec.hops[1].token)
  /\ \A rec \in Records :
       (TimedOut(rec) /\ TokenOf(rec).signalled) =>
         now >= rec.hops[1].at + tokenDelay(decorators[1].patch)

\* two overlapping invocations: both have called fn, the token of the
\* first is signalled and the token of the second is not
C12_Witness ==
  /\ Len(calls) >= 2
  /\ calls[1].phase = "fn" /\ calls[2].phase = "fn"
  /\ TimedOut(calls[1]) /\ TimedOut(calls[2])
  /\ TokenOf(calls[1]).signalled
  /\ ~TokenOf(calls[2]).signalled

(***************************************************************************)
(* Failing patch functions.                                                *)
(***************************************************************************)
\* the first decorator of the list whose function fails, or 0
FirstFailing ==
  IF \E j \in 1..Len(decorators) : raises(decorators[j].patch)
    THEN CHOOSE j \in 1..Len(decorators) :
           /\ raises(decorators[j].patch)
           /\ \A i \in 1..(j - 1) : ~raises(decorators[i].patch)
    ELSE 0

\* the calls in which layer j has called the function the user gave it
RanPatch(j) ==
  {c \in DOMAIN calls : \E p \in 1..Len(calls[c].hops) : calls[c].hops[p].layer = j}

(***************************************************************************)
(* C13.  If a patch function throws or returns a promise that rejects      *)
(* during an invocation, the decorated call rejects with that same         *)
(* failure, fn is never called for that invocation, and no patch function  *)
(* of a decorator further inside the chain is invoked: no mapping, merged  *)
(* in part or in full, reaches fn.                                         *)
(***************************************************************************)
C13_PatchFailureRejectsCall ==
  LET j == FirstFailing
  IN j # 0 =>
       /\ fnCalls = 0
       /\ \A k \in (j + 1)..Len(decorators) : patchCalls[k] = 0 /\ RanPatch(k) = {}
       /\ patchCalls[j] = Cardinality(RanPatch(j))
       /\ \A rec \in Records :
            /\ ~FnCalled(rec)
            /\ \A q \in 1..Len(rec.trace) :
                 /\ rec.trace[q].layer <= j
                 /\ rec.trace[q].ev \notin {"fn", "call"} \/ rec.trace[q].layer < j
            /\ rec.phase = "settled" =>
                 rec.result = [state |-> "rejected",
                               value |-> <<reasonOf(decorators[j].patch)>>]

\* two calls have been rejected by the failure of the value function of the
\* second decorator, after the first decorator's function had resolved, with
\* an asynchronous function further inside
C13_Witness ==
  /\ Len(decorators) >= 2
  /\ FirstFailing = 2
  /\ decorators[1] = options(Fn("spread", FALSE, "", Obj("method" :> Str("GET"))))
  /\ decorators[2] = headers(Fn("raise", TRUE, "", Expired))
  /\ Len(calls) = 2
  /\ \A c \in 1..2 :
       /\ calls[c].phase = "settled"
       /\ calls[c].result = [state |-> "rejected", value |-> <<Expired>>]
  /\ patchCalls[1] = 2
  /\ patchCalls[2] = 2

(***************************************************************************)
(* C14.  Through any number of options-based layers (options, option,      *)
(* method, headers, timeout, body) each invocation calls fn exactly once,  *)
(* and the promise returned to the caller settles exactly as fn's does: it *)
(* fulfils with the value fn resolved with, or rejects with the reason fn  *)
(* rejected with, a cancellation error included.                           *)
(***************************************************************************)
\* the events of rec at which fn is called
FnEvents(rec) == {q \in 1..Len(rec.trace) : rec.trace[q].ev = "fn"}

C14_OutcomeOfFnUnchanged ==
  /\ fnCalls = Cardinality({c \in DOMAIN calls :
                              calls[c].phase = "returned" \/ FnCalled(calls[c])})
  /\ \A rec \in Records :
       /\ Cardinality(FnEvents(rec)) = IF FnCalled(rec) THEN 1 ELSE 0
       /\ rec.inner.state # "pending" =>
            /\ FnCalled(rec)
            /\ OwnOutcome(rec) \/ rec.inner = Cancelled
       /\ rec.phase = "settled" =>
            /\ Len(rec.hops) = Len(decorators)
            /\ rec.result.state = rec.inner.state
            /\ rec.result.value = rec.inner.value
            /\ rec.result.state = "fulfilled" => rec.result.value = rec.fnArgs

\* the second call, through two layers of which one is body or timeout, has
\* been rejected with the cancellation error fn rejected with
C14_Witness ==
  /\ Len(decorators) = 2
  /\ decorators[1].kind = "body" \/ decorators[1] = timeout(0)
  /\ decorators[2] = timeout(0) \/ decorators[2].kind = "options"
  /\ Len(calls) = 2
  /\ fnCalls = 2
  /\ calls[2].phase = "settled"
  /\ calls[2].inner = Cancelled
  /\ calls[2].result = Cancelled

(***************************************************************************)
(* C15.  No invocation of a decorated function mutates the caller's opts   *)
(* or a decorator's static patch mapping: after the call every object that *)
(* existed when the call was made, these two and the mappings nested in    *)
(* them included, has the keys and values it had, and the mapping passed   *)
(* to fn is an object built during the call, neither the caller's opts     *)
(* object nor a patch object.                                              *)
(***************************************************************************)
RECURSIVE MergedWithAll(_, _)
\* o merged with the patches ps in turn, as values
MergedWithAll(o, ps) ==
  IF ps = <<>> THEN o ELSE MergedWithAll(mergeDeepLeft(o, Head(ps)), Tail(ps))

C15_OperandsNotMutated ==
  /\ \A i \in 1..Len(decorators) :
       valueAt(heap, PatchObjects.addrs[i]) = decorators[i].patch.v
  /\ \A c \in DOMAIN refs :
       LET r == refs[c]
       IN /\ \A a \in 1..Len(r.before) : heap[a] = r.before[a]
          /\ r.given.given => valueAt(heap, r.opts) = r.given.value
          /\ r.layer > 1 =>
               /\ r.cur > Len(r.before)
               /\ r.cur # r.opts
               /\ \A i \in 1..Len(decorators) : r.cur # PatchObjects.addrs[i]
          /\ r.fn # 0 =>
               /\ r.fn = r.cur
               /\ r.fn > Len(r.before)
               /\ valueAt(heap, r.fn) =
                    MergedWithAll(r.given.value,
                                  [i \in 1..Len(decorators) |-> decorators[i].patch.v])

\* fn has been called in two calls through two static patches that both
\* give headers, the caller having given headers too in one and no opts in
\* the other
C15_Witness ==
  /\ Len(decorators) = 2
  /\ \A i \in 1..2 : "headers" \in DOMAIN decorators[i].patch.v
  /\ decorators[1] # decorators[2]
  /\ Len(refs) = 2
  /\ refs[1].fn # 0 /\ refs[2].fn # 0
  /\ refs[1].given.given /\ "headers" \in DOMAIN refs[1].given.value
  /\ ~refs[2].given.given

(***************************************************************************)
(* C16.  When several invocations of the same decorated function are in    *)
(* flight at once, their patch resolutions and fn calls interleaved in any *)
(* order, fn is called in each with the merge of that invocation's own     *)
(* opts and the patches, the arguments it would receive if the invocation  *)
(* ran alone; no key or value of another invocation's opts appears in it.  *)
(***************************************************************************)
\* the keys and values at the first two levels of a mapping, as pairs
Entries(m) ==
  {<<k, m[k]>> : k \in {x \in DOMAIN m : ~isObject(m[x])}} \cup
  UNION {{<<k, sk, m[k].v[sk]>> : sk \in DOMAIN m[k].v} :
           k \in {x \in DOMAIN m : isObject(m[x])}}

\* what the decorators of the list inject, whoever calls
InjectedByAll ==
  [i \in 1..Len(decorators) |-> Injected(decorators[i], <<Url>>)]

C16_OverlappingCallsAreIndependent ==
  \A c \in DOMAIN calls :
    FnCalled(calls[c]) =>
      LET rec == calls[c]
          own == CallerOptions(rec)
      IN /\ rec.fnArgs = <<rec.args[1], Obj(MergedWithAll(own, InjectedByAll))>>
         /\ \A e \in Entries(rec.fnArgs[2].v) :
              \/ e \in Entries(own)
              \/ \E i \in 1..Len(decorators) : e \in Entries(InjectedByAll[i])

\* two calls with different opts were in flight together: the second was
\* started before the first patch of the first had resolved, and fn was
\* called in the second before it was in the first
C16_Witness ==
  /\ Len(calls) >= 2
  /\ Len(decorators) = 2
  /\ calls[1].args # calls[2].args
  /\ Len(calls[1].args) = 2 /\ Len(calls[2].args) = 2
  /\ calls[1].phase = "resolving"
  /\ Len(calls[1].hops) = 2
  /\ FnCalled(calls[2])

(***************************************************************************)
(* Calls through functions built by different expressions.                 *)
(***************************************************************************)
RECURSIVE Flat(_)
\* the arguments of an expression, whatever their grouping
Flat(groups) == IF groups = <<>> THEN <<>> ELSE Head(groups) \o Flat(Tail(groups))

\* the same arguments to fn, up to which controller a signal belongs to
SameFnArgs(a, b) ==
  /\ Len(a) = 2 /\ Len(b) = 2
  /\ a[1] = b[1]
  /\ DOMAIN a[2].v = DOMAIN b[2].v
  /\ \A k \in DOMAIN a[2].v :
       \/ a[2].v[k] = b[2].v[k]
       \/ a[2].v[k].t = "signal" /\ b[2].v[k].t = "signal"

\* pairs of calls with the same arguments in which fn has been called
FnPairs ==
  {<<a, b>> \in Records \X Records :
     FnCalled(a) /\ FnCalled(b) /\ a.args = b.args /\ a.form.family = b.form.family}

(***************************************************************************)
(* C17.  Every grouping of a decorator's leading arguments builds the same *)
(* decorated function: options(patch)(fn) and options(patch, fn),          *)
(* option(k, v, fn), option(k, v)(fn), option(k)(v, fn) and                *)
(* option(k)(v)(fn), method(v, fn) and method(v)(fn), headers(v, fn) and   *)
(* headers(v)(fn), timeout(ms, fn) and timeout(ms)(fn) are request         *)
(* functions that call fn with the same arguments for every (url, opts).   *)
(***************************************************************************)
C17_GroupingIsImmaterial ==
  /\ form \in GroupedExprs => built \in {"no", "yes"}
  /\ \A pair \in FnPairs :
       (/\ pair[1].form \in GroupedExprs
        /\ pair[2].form \in GroupedExprs
        /\ pair[1].form.name = pair[2].form.name
        /\ Flat(pair[1].form.groups) = Flat(pair[2].form.groups)) =>
         SameFnArgs(pair[1].fnArgs, pair[2].fnArgs)

\* fn has been called with headers through option(k)(v)(fn) and through
\* option(k, v, fn), the caller having given headers too
C17_Witness ==
  \E pair \in FnPairs :
    /\ pair[1].form.name = "option"
    /\ pair[1].form.family = "option grouped"
    /\ Len(pair[1].form.groups) = 3
    /\ Len(pair[2].form.groups) = 1
    /\ Len(pair[1].args) = 2
    /\ "headers" \in DOMAIN pair[1].args[2].v
    /\ pair[1].fnArgs[2].v["headers"].v = ContentJson @@ SomeHeader @@ BearerAuth

(***************************************************************************)
(* C18.  option(key, value, fn)(url, opts) calls fn with the same          *)
(* arguments as options({[key]: v}, fn)(url, opts), where v is value       *)
(* itself when value is not a function and otherwise the awaited result of *)
(* calling value with no argument: the value function never receives the   *)
(* current opts.  In particular option('method', 'POST', fn)(url) gives fn *)
(* (url, {method: 'POST'}), and a method the caller supplies wins.         *)
(***************************************************************************)
\* what value is, or returns when called with no argument
Yields(value) ==
  CASE ~isFunction(value) -> value
    [] isFunction(value) /\ value.v.body = "const" -> value.v.ret
    [] isFunction(value) /\ value.v.body = "spread" -> value.v.ret

\* expr is option(key, value, fn) and other is options({[key]: v}, fn)
KeyedAlike(expr, other) ==
  /\ expr.name = "option"
  /\ other.name = "options"
  /\ LET as == Flat(expr.groups)
         bs == Flat(other.groups)
     IN /\ Len(as) = 3 /\ Len(bs) = 2
        /\ bs[1] = Obj(as[1].v :> Yields(as[2]))
        /\ bs[2] = as[3]

MethodPost == Expr("method keyed", "option", <<<<Str("method"), Str("POST"), BaseFn>>>>)

C18_OptionIsKeyedOptions ==
  /\ form \in KeyedExprs => built \in {"no", "yes"}
  /\ \A pair \in FnPairs :
       KeyedAlike(pair[1].form, pair[2].form) =>
         SameFnArgs(pair[1].fnArgs, pair[2].fnArgs)
  /\ \A rec \in Records :
       (FnCalled(rec) /\ rec.form = MethodPost) =>
         /\ rec.args = <<Url>> => rec.fnArgs = <<Url, Obj("method" :> Str("POST"))>>
         /\ (Len(rec.args) = 2 /\ "method" \in DOMAIN rec.args[2].v) =>
              rec.fnArgs[2].v["method"] = rec.args[2].v["method"]

\* fn has been called through option('headers', opts => ({...opts, ...}))
\* and through options with the keyed mapping, the caller having given a
\* method in both calls; and through option('method', 'POST') with a method
\* of the caller's
C18_Witness ==
  /\ \E pair \in FnPairs :
       /\ KeyedAlike(pair[1].form, pair[2].form)
       /\ Flat(pair[1].form.groups)[2] = Fn("spread", FALSE, "", Obj(ContentXml))
       /\ pair[1].args = <<Url, Obj("method" :> Str("GET"))>>
       /\ pair[1].fnArgs = <<Url, Obj(("method" :> Str("GET")) @@
                                      ("headers" :> Obj(ContentXml)))>>
  /\ form.family = "headers keyed"

(***************************************************************************)
(* C19.  A function patch given to options is invoked with the options     *)
(* that reached its layer: the caller's opts (an empty mapping when the    *)
(* caller omitted opts) already merged with the patches of every decorator *)
(* listed before it in decorate's list, and containing nothing injected by *)
(* decorators listed after it.                                             *)
(***************************************************************************)
\* the user gave options a function
FunctionPatch(d) ==
  d.kind = "options" /\ isFunction(d.patch) /\ d.patch.v.body # "keyed"

\* what the decorators before the j-th inject
InjectedBefore(rec, j) ==
  [i \in 1..(j - 1) |-> Injected(decorators[i], rec.args)]

C19_PatchSeesOptsOfItsLayer ==
  \A rec \in Records :
    \A p \in 1..Len(rec.hops) :
      LET hop == rec.hops[p]
          j == hop.layer
      IN FunctionPatch(decorators[j]) =>
           /\ Len(hop.patchArgs) = 1
           /\ isObject(hop.patchArgs[1])
           /\ hop.patchArgs[1].v =
                MergedWithAll(CallerOptions(rec), InjectedBefore(rec, j))
           /\ \A e \in Entries(hop.patchArgs[1].v) :
                \/ e \in Entries(CallerOptions(rec))
                \/ \E i \in 1..(j - 1) : e \in Entries(Injected(decorators[i], rec.args))
           /\ (j = 1 /\ Len(rec.args) = 1) => hop.patchArgs[1] = Obj(EmptyMap)
           /\ hop.done => hop.patch = callFn(decorators[j].patch, hop.patchArgs, 0).v

\* opts => ({...opts, method: 'GET'}) listed second has been called with
\* the caller's body merged with the first decorator's headers, and fn has
\* received what it returned
C19_Witness ==
  \E rec \in Records :
    /\ FnCalled(rec)
    /\ decorators = << headers(Obj(BearerAuth)),
                       options(Fn("spread", FALSE, "", Obj("method" :> Str("GET")))) >>
    /\ rec.args = <<Url, Obj("body" :> Str("yeet"))>>
    /\ rec.hops[2].patchArgs =
         <<Obj(("body" :> Str("yeet")) @@ ("headers" :> Obj(BearerAuth)))>>
    /\ rec.fnArgs[2].v["method"] = Str("GET")

(***************************************************************************)
(* C20.  Synchronous and asynchronous patches are handled uniformly: for   *)
(* every mapping m and every (url, opts), options(m, fn),                  *)
(* options(() => m, fn) and options(async () => m, fn) call fn with the    *)
(* same arguments, and so do headers and option given a value, a function  *)
(* returning it, or an async function resolving to it.                     *)
(***************************************************************************)
\* v for v, for () => v and for async () => v
Unwrapped(x) == IF isFunction(x) /\ x.v.body = "const" THEN x.v.ret ELSE x

\* the two expressions differ at most in how a value is wrapped
ThunksAlike(expr, other) ==
  /\ expr.name = other.name
  /\ LET as == Flat(expr.groups)
         bs == Flat(other.groups)
     IN /\ Len(as) = Len(bs)
        /\ \A i \in 1..Len(as) : Unwrapped(as[i]) = Unwrapped(bs[i])

C20_SyncAndAsyncAlike ==
  /\ form \in ThunkExprs => built \in {"no", "yes"}
  /\ \A pair \in FnPairs :
       (/\ pair[1].form \in ThunkExprs
        /\ pair[2].form \in ThunkExprs
        /\ ThunksAlike(pair[1].form, pair[2].form)) =>
         pair[1].fnArgs = pair[2].fnArgs

\* fn has been called with the caller's and the patch's headers through
\* options(m, fn) and through options(async () => m, fn), and the third
\* call went through options(() => m, fn) or is still to come
C20_Witness ==
  \E pair \in FnPairs :
    /\ pair[1].form = Expr("options thunks", "options", <<<<XmlHeaders, BaseFn>>>>)
    /\ pair[2].form = Expr("options thunks", "options",
                           <<<<Fn("const", TRUE, "", XmlHeaders), BaseFn>>>>)
    /\ pair[1].args = <<Url, Obj("headers" :> Obj(ContentJson @@ SomeHeader))>>
    /\ pair[2].fnArgs = <<Url, Obj("headers" :> Obj(ContentJson @@ SomeHeader))>>

(***************************************************************************)
(* Lists with the memoizing decorator of the test-suite, next to           *)
(* pass-throughs and an options-based layer.  The caller awaits each call  *)
(* before it makes the next and keeps the results.                         *)
(***************************************************************************)
MemoPool == {pass, memoize, method(Str("DELETE"))}

MemoLists == UNION {[1..n -> MemoPool] : n \in 1..MaxDecorators}

MemoArgs == {<<Url>>, <<Url, Obj("method" :> Str("GET"))>>, <<Str("123.com/wat")>>}

InitMemo ==
  /\ decorators \in MemoLists
  /\ built = "no"
  /\ layers = <<>>
  /\ applied = <<>>
  /\ calls = <<>>
  /\ patchCalls = [i \in 1..Len(decorators) |-> 0]
  /\ fnCalls = 0
  /\ form = ViaDecorate
  /\ tokens = <<>>
  /\ now = 0
  /\ heap = <<>>
  /\ refs = <<>>
  /\ memo = <<>>
  /\ chain = <<>>

NextMemo ==
  \/ Decorate
  \/ \E args \in MemoArgs : Await(args)
  \/ \E c \in DOMAIN calls : PatchSettle(c)
  \/ \E c \in DOMAIN calls : CallInner(c)
  \/ \E c \in DOMAIN calls : \E state \in {"fulfilled", "rejected"} : FnSettle(c, state)
  \/ \E c \in DOMAIN calls : Adopt(c)

SpecMemo == InitMemo /\ [][NextMemo]_vars

(***************************************************************************)
(* C21.  decorate(fn, list) applies each decorator of the list exactly     *)
(* once, when decorate is called and before any request arguments exist;   *)
(* invocations never re-apply a decorator, so what a decorator closes over *)
(* persists: with a memoizing decorator in the list, fn is called once per *)
(* distinct argument list however often the decorated function is invoked. *)
(***************************************************************************)
\* the call has got as far as fn, or has been served from a cache
Served(rec) == rec.phase \in {"fn", "unwinding", "settled"}

\* the memoizing decorator is in the list with only pass-throughs before it
MemoizedOutermost ==
  \E j \in 1..Len(decorators) :
    /\ decorators[j].kind = "memo"
    /\ \A k \in 1..(j - 1) : decorators[k].kind = "pass"

C21_DecoratorsAppliedOnceAtDecorate ==
  /\ calls # <<>> => built = "yes"
  /\ built = "yes" =>
       /\ Len(applied) = Len(decorators)
       /\ \A i \in 1..Len(decorators) : applied[Len(decorators) + 1 - i] = decorators[i]
       /\ layers = decorators
  /\ (MemoizedOutermost /\ \A c \in DOMAIN calls : Served(calls[c])) =>
       /\ fnCalls = Cardinality({calls[c].args : c \in DOMAIN calls})
       /\ \A c, e \in DOMAIN calls :
            (calls[c].args = calls[e].args /\ calls[c].phase = "settled"
               /\ calls[e].phase = "settled") =>
              calls[c].result = calls[e].result

\* as in the test-suite: the same argument list twice, fn called once, and
\* the second call resolved with what the first resolved with
C21_Witness ==
  /\ decorators = <<pass, memoize>>
  /\ Len(calls) = 2
  /\ calls[1].args = <<Url>>
  /\ calls[2].args = <<Url>>
  /\ calls[2].phase = "settled"
  /\ calls[2].result = [state |-> "fulfilled", value |-> <<Url>>]
  /\ calls[2].fnArgs = <<>>
  /\ fnCalls = 1

(***************************************************************************)
(* C22.  With body first in decorate's list and options-based decorators   *)
(* after it, the decorated function takes (json, url, opts) and fn is      *)
(* called with (url, M), M being the caller's opts merged with body's      *)
(* three entries and then with the patch of every later decorator; json is *)
(* consumed by body: no later decorator sees it as url or as opts.         *)
(***************************************************************************)
\* what the decorators of the list inject, in list order
InjectedInOrder(rec) ==
  [i \in 1..Len(decorators) |-> Injected(decorators[i], rec.args)]

\* body is first and every other decorator of the list is options-based
BodyThenOptions ==
  /\ BodyFirst
  /\ Len(decorators) >= 2
  /\ \A i \in 2..Len(decorators) : decorators[i].kind = "options"

C22_BodyFirstThenOptions ==
  \A rec \in Records :
    (BodyThenOptions /\ rec.phase # "returned") =>
      /\ Len(rec.args) \in {2, 3}
      /\ \A p \in 2..Len(rec.hops) :
           LET hop == rec.hops[p]
           IN /\ hop.args[1] = rec.args[2]
              /\ hop.url = rec.args[2]
              /\ Len(hop.args) = 2
              /\ \A n \in 1..Len(hop.args) : hop.args[n] # rec.args[1]
              /\ Obj(hop.opts) # rec.args[1]
              /\ "body" \in DOMAIN hop.opts
      /\ FnCalled(rec) =>
           /\ Len(rec.hops) = Len(decorators)
           /\ rec.fnArgs =
                <<rec.args[2],
                  Obj(MergedWithAll(CallerOptions(rec), InjectedInOrder(rec)))>>
           /\ \A e \in Entries(bodyPatch(rec.args[1])) \cup
                       UNION {Entries(Injected(decorators[i], rec.args)) :
                                i \in 2..Len(decorators)} :
                e[1] \in DOMAIN rec.fnArgs[2].v

\* body, then headers with a bearer token; the caller passes a payload, the
\* url and a header of its own, and fn has received all of it merged
C22_Witness ==
  \E rec \in Records :
    /\ decorators = <<body, headers(Obj(BearerAuth))>>
    /\ rec.args = <<Obj("hello" :> Str("world")), Url, Obj("headers" :> Obj(SomeHeader))>>
    /\ rec.fnArgs =
         <<Url, Obj(("method" :> Str("POST")) @@
                    ("headers" :> Obj(ContentJson @@ SomeHeader @@ BearerAuth)) @@
                    ("body" :> Str("{\"hello\":\"world\"}")))>>

(***************************************************************************)
(* Response helpers (src/index.js:10-14) in a promise chain, as in the     *)
(* test-suite: fetch(url).then(rejectIfNotOkay).then(json).  A call of a   *)
(* handler either returns a value or throws one.                           *)
(***************************************************************************)
Response(ok, statusText, content) ==
  [t |-> "response", v |-> [ok |-> ok, statusText |-> statusText, body |-> content]]

returns(value) == [threw |-> FALSE, value |-> value]

\* raise = err => { throw err }
raise(err) == [threw |-> TRUE, value |-> err]

\* a slip: the Error is returned, not thrown
rejectIfNotOkayReturning(res) ==
  IF res.v.ok THEN returns(res) ELSE returns(Err(res.v.statusText))

\* res => res.ok ? res : raise(new Error(res.statusText))
rejectIfNotOkay(res) ==
  IF res.v.ok THEN returns(res) ELSE raise(Err(res.v.statusText))

\* res => res.json(): the parsed body, or a TypeError when res has no json
json(res) ==
  IF res.t = "response" THEN returns(res.v.body) ELSE raise(Err("TypeError"))

callHandler(name, value) ==
  IF name = "rejectIfNotOkay" THEN rejectIfNotOkay(value) ELSE json(value)

\* p.then(handler): a rejected p skips the handler and passes on; a
\* fulfilled p runs it, and what it throws rejects the new promise
thenOutcome(p, name) ==
  IF p.state = "rejected" THEN p
  ELSE LET r == callHandler(name, p.value[1])
       IN [state |-> IF r.threw THEN "rejected" ELSE "fulfilled", value |-> <<r.value>>]

StatusTexts == {"OK", "Created", "Bad Request", "Unauthorized", "Not Found", "Internal Server Error"}

Contents == {Obj("hello" :> Str("world")), Obj("message" :> Str("Yeet")), Str("hi")}

Responses == {Response(ok, s, b) : ok \in BOOLEAN, s \in StatusTexts, b \in Contents}

\* how fetch(url) settles
Fetched ==
  {[state |-> "fulfilled", value |-> <<r>>] : r \in Responses} \cup
  {[state |-> "rejected", value |-> <<Err(m)>>] : m \in {"ECONNREFUSED", "AbortError"}}

Handlers == <<"rejectIfNotOkay", "json">>

\* the handlers of the chain run in turn, each once the promise before it
\* has settled
Then ==
  /\ chain # <<>>
  /\ Len(chain.after) < Len(Handlers)
  /\ LET n == Len(chain.after) + 1
         p == IF n = 1 THEN chain.p ELSE chain.after[n - 1]
     IN chain' = [chain EXCEPT
                    !.after = Append(@, thenOutcome(p, Handlers[n])),
                    !.ran = IF p.state = "fulfilled" THEN Append(@, Handlers[n]) ELSE @]
  /\ UNCHANGED <<decorators, built, layers, applied, calls, patchCalls, fnCalls,
                 form, timeVars, heapVars, memo>>

InitChain ==
  /\ decorators = <<>>
  /\ built = "no"
  /\ layers = <<>>
  /\ applied = <<>>
  /\ calls = <<>>
  /\ patchCalls = <<>>
  /\ fnCalls = 0
  /\ form = ViaDecorate
  /\ tokens = <<>>
  /\ now = 0
  /\ heap = <<>>
  /\ refs = <<>>
  /\ memo = <<>>
  /\ chain \in {[p |-> f, after |-> <<>>, ran |-> <<>>] : f \in Fetched}

NextChain == Then

SpecChain == InitChain /\ [][NextChain]_vars

(***************************************************************************)
(* C23.  rejectIfNotOkay(response) returns the very same response,         *)
(* unchanged, when its ok flag is true; when the flag is false it never    *)
(* returns the response and fails with an Error whose message is the       *)
(* response's statusText, so that promise.then(rejectIfNotOkay) is         *)
(* rejected with that Error and later then-handlers are skipped.           *)
(***************************************************************************)
C23_RejectIfNotOkay ==
  (chain # <<>> /\ chain.p.state = "fulfilled" /\ Len(chain.after) >= 1) =>
    LET res == chain.p.value[1]
        out == chain.after[1]
    IN /\ chain.ran[1] = "rejectIfNotOkay"
       /\ res.v.ok =>
            /\ out = [state |-> "fulfilled", value |-> <<res>>]
            /\ Len(chain.after) = 2 =>
                 /\ chain.ran = <<"rejectIfNotOkay", "json">>
                 /\ chain.after[2] = [state |-> "fulfilled", value |-> <<res.v.body>>]
       /\ ~res.v.ok =>
            /\ out.state = "rejected"
            /\ out.value = <<Err(res.v.statusText)>>
            /\ out.value[1] # res
            /\ Len(chain.after) = 2 =>
                 /\ chain.ran = <<"rejectIfNotOkay">>
                 /\ chain.after[2] = out

\* the test-suite's bad status: the chain ends rejected with Error('Bad
\* Request') and the body was never parsed
C23_Witness ==
  /\ chain # <<>>
  /\ chain.p = [state |-> "fulfilled",
                value |-> <<Response(FALSE, "Bad Request", Obj("message" :> Str("Yeet")))>>]
  /\ Len(chain.after) = 2
  /\ chain.after[2] = [state |-> "rejected", value |-> <<Err("Bad Request")>>]
  /\ chain.ran = <<"rejectIfNotOkay">>

(***************************************************************************)
(* Patches that are neither a mapping nor a function: a number, a string,  *)
(* null, next to well-formed ones.                                         *)
(***************************************************************************)
Malformed == {Num(5), Str("ab"), Null}

MalformedPool ==
  {options(m) : m \in Malformed} \cup
  {options(Obj("method" :> Str("POST"))), headers(Obj(BearerAuth))}

MalformedLists == UNION {[1..n -> MalformedPool] : n \in 1..MaxDecorators}

MalformedArgs == {<<Url>>, <<Url, Obj("method" :> Str("GET"))>>}

InitMalformed ==
  /\ decorators \in MalformedLists
  /\ built = "no"
  /\ layers = <<>>
  /\ applied = <<>>
  /\ calls = <<>>
  /\ patchCalls = [i \in 1..Len(decorators) |-> 0]
  /\ fnCalls = 0
  /\ form = ViaDecorate
  /\ tokens = <<>>
  /\ now = 0
  /\ heap = <<>>
  /\ refs = <<>>
  /\ memo = <<>>
  /\ chain = <<>>

NextMalformed ==
  \/ Decorate
  \/ \E args \in MalformedArgs : Await(args)
  \/ \E c \in DOMAIN calls : PatchSettle(c)
  \/ \E c \in DOMAIN calls : CallInner(c)
  \/ \E c \in DOMAIN calls : \E state \in {"fulfilled", "rejected"} : FnSettle(c, state)
  \/ \E c \in DOMAIN calls : Adopt(c)

SpecMalformed == InitMalformed /\ [][NextMalformed]_vars

(***************************************************************************)
(* C24, as claimed.  A patch given to options that is neither a mapping    *)
(* nor a function (a number, a string, null) fails fast at the point of    *)
(* use: the invocation ends in an error, and fn is never called with       *)
(* options derived from the malformed patch.                               *)
(***************************************************************************)
MalformedLayer(j) ==
  /\ decorators[j].kind = "options"
  /\ ~isFunction(decorators[j].patch)
  /\ ~isObject(decorators[j].patch)

C24_MalformedPatchFailsFast ==
  \A rec \in Records :
    \A p \in 1..Len(rec.hops) :
      MalformedLayer(rec.hops[p].layer) =>
        /\ ~InnerCalled(rec, p)
        /\ ~FnCalled(rec)
        /\ rec.phase = "settled" => rec.result.state = "rejected"

(***************************************************************************)
(* timeout(ms) followed by a retrying decorator, as in the README, over a  *)
(* base function that honours opts.signal and may fail by itself.  The     *)
(* caller awaits each call and takes its result before the next.           *)
(***************************************************************************)
Retries == {1, 2}

RetryLists == {<<timeout(ms), retry(n)>> : ms \in Delays, n \in Retries}

InitRetry ==
  /\ decorators \in RetryLists
  /\ built = "no"
  /\ layers = <<>>
  /\ applied = <<>>
  /\ calls = <<>>
  /\ patchCalls = [i \in 1..Len(decorators) |-> 0]
  /\ fnCalls = 0
  /\ form = ViaDecorate
  /\ tokens = <<>>
  /\ now = 0
  /\ heap = <<>>
  /\ refs = <<>>
  /\ memo = <<>>
  /\ chain = <<>>

NextRetry ==
  \/ Decorate
  \/ \E args \in TimeoutArgs : Invoke(args)
  \/ \E c \in DOMAIN calls : Step(c)
  \/ \E c \in DOMAIN calls : FnAbort(c)
  \/ \E c \in DOMAIN calls : Reattempt(c)
  \/ Tick
  \/ \E k \in DOMAIN tokens : TimerFire(k)

SpecRetry == InitRetry /\ [][NextRetry]_vars

(***************************************************************************)
(* C25.  With a decorator that re-invokes its inner function listed after  *)
(* timeout, as in [timeout(ms), retry(n)], every attempt made within one   *)
(* invocation of the decorated function receives the same token, created   *)
(* once by timeout; once that token has signalled, every later attempt of  *)
(* that invocation is started with an already-signalled token.             *)
(***************************************************************************)
\* the tokens the layers of the call have created
TokensOf(rec) == {rec.hops[p].token : p \in 1..Len(rec.hops)} \ {0}

C25_AttemptsShareToken ==
  /\ Len(tokens) = Len(calls)
  /\ \A c \in InFlight :
       LET rec == calls[c]
       IN /\ TokensOf(rec) = {c}
          /\ Len(rec.tries) + Cardinality(DOMAIN calls \ InFlight) <= fnCalls
          /\ \A n \in 1..Len(rec.tries) :
               LET e == rec.tries[n]
               IN /\ Len(e.args) = 2
                  /\ e.args[1] = rec.args[1]
                  /\ isObject(e.args[2])
                  /\ "signal" \in DOMAIN e.args[2].v
                  /\ e.args[2].v["signal"] = Sig(c)
                  /\ e.args = rec.tries[1].args
                  /\ \A m \in n..Len(rec.tries) :
                       e.signalled => rec.tries[m].signalled
                  /\ (n > 1 /\ rec.tries[n - 1].signalled) => e.signalled
                  /\ (e.at >= tokens[c].due + 1) => e.signalled
          /\ FnCalled(rec) => rec.fnArgs = rec.tries[Len(rec.tries)].args

\* an invocation whose first attempt failed before the delay had elapsed,
\* whose second was cancelled by the token, and whose third was started
\* with the same token, already signalled
C25_Witness ==
  \E c \in DOMAIN calls :
    /\ Len(calls[c].tries) = 3
    /\ ~calls[c].tries[1].signalled
    /\ ~calls[c].tries[2].signalled
    /\ calls[c].tries[3].signalled
    /\ calls[c].tries[3].args = calls[c].tries[1].args
    /\ calls[c].tries[3].args[2].v["signal"] = Sig(c)
    /\ calls[c].phase = "settled"
    /\ calls[c].result = [state |-> "rejected", value |-> <<Err("AbortError")>>]

(***************************************************************************)
(* timeout(ms) reached by options that already hold a signal: the caller's *)
(* own, of a controller the caller keeps and does not abort here, or the   *)
(* one an earlier-listed timeout or options injected.                      *)
(***************************************************************************)
\* the signal of a controller that is the caller's
CallerSignal == Sig(0)

SignalLists ==
  {<<timeout(ms)>> : ms \in Delays} \cup
  {<<timeout(a), timeout(b)>> : a \in Delays, b \in Delays} \cup
  {<<options(Obj("signal" :> CallerSignal)), timeout(ms)>> : ms \in Delays}

SignalArgs == {<<Url>>, <<Url, Obj("signal" :> CallerSignal)>>}

InitSignal ==
  /\ decorators \in SignalLists
  /\ built = "no"
  /\ layers = <<>>
  /\ applied = <<>>
  /\ calls = <<>>
  /\ patchCalls = [i \in 1..Len(decorators) |-> 0]
  /\ fnCalls = 0
  /\ form = ViaDecorate
  /\ tokens = <<>>
  /\ now = 0
  /\ heap = <<>>
  /\ refs = <<>>
  /\ memo = <<>>
  /\ chain = <<>>

NextSignal ==
  \/ Decorate
  \/ \E args \in SignalArgs : Invoke(args)
  \/ \E c \in DOMAIN calls : Step(c)
  \/ \E c \in DOMAIN calls : FnAbort(c)
  \/ Tick
  \/ \E k \in DOMAIN tokens : TimerFire(k)

SpecSignal == InitSignal /\ [][NextSignal]_vars

(***************************************************************************)
(* C26.  If the options reaching a timeout(ms, fn) layer already contain a *)
(* signal key, from the caller or from an earlier-listed decorator, fn     *)
(* receives that signal and not timeout's token; the token is created and  *)
(* its timer started all the same, but fn never sees it and the invocation *)
(* is not cancelled when ms elapses.                                       *)
(***************************************************************************)
\* hop is of a timeout layer that was reached by options holding a signal
Shadowed(hop) == hop.token # 0 /\ "signal" \in DOMAIN hop.opts

C26_ExistingSignalShadowsTimeout ==
  \A c \in InFlight :
    \A p \in 1..Len(calls[c].hops) :
      LET rec == calls[c]
          hop == rec.hops[p]
      IN Shadowed(hop) =>
           /\ hop.token \in DOMAIN tokens
           /\ tokens[hop.token].due = hop.at + tokenDelay(layers[hop.layer].patch)
           /\ hop.done =>
                /\ hop.patch = ("signal" :> Sig(hop.token))
                /\ hop.merged["signal"] = hop.opts["signal"]
                /\ hop.merged["signal"] # Sig(hop.token)
           /\ FnCalled(rec) =>
                /\ rec.fnArgs[2].v["signal"] # Sig(hop.token)
                /\ rec.fnArgs[2].v["signal"] = rec.hops[1].merged["signal"]
                /\ (p = 1 \/ ~Shadowed(rec.hops[p - 1])) =>
                     rec.fnArgs[2].v["signal"] = hop.opts["signal"]
           /\ (rec.inner = [state |-> "rejected", value |-> <<Err("AbortError")>>]) =>
                /\ rec.fnArgs[2].v["signal"] # CallerSignal
                /\ tokens[rec.fnArgs[2].v["signal"].v].signalled
           /\ (rec.phase = "fn" /\ tokens[hop.token].signalled
                 /\ rec.fnArgs[2].v["signal"] = CallerSignal) =>
                ENABLED FnSettle(c, "fulfilled")

\* the caller passed a signal of its own to timeout(1): the token has been
\* created and has signalled, and fn, called with the caller's signal, has
\* fulfilled after that
C26_Witness ==
  \E c \in InFlight :
    /\ decorators = <<timeout(1)>>
    /\ calls[c].args = <<Url, Obj("signal" :> CallerSignal)>>
    /\ calls[c].hops[1].token \in DOMAIN tokens
    /\ tokens[calls[c].hops[1].token].signalled
    /\ calls[c].fnArgs = <<Url, Obj("signal" :> CallerSignal)>>
    /\ calls[c].innerAt > tokens[calls[c].hops[1].token].due
    /\ calls[c].phase = "settled"
    /\ calls[c].result.state = "fulfilled"

(***************************************************************************)
(* timeout(ms) with the clock followed until every timer that was started  *)
(* has run: a call is made only while its delay still ends within the time *)
(* the model follows.  The caller awaits each call and keeps its result.   *)
(***************************************************************************)
\* the decorated function is called early enough for its timer to be seen
InTime(args) ==
  /\ \A i \in 1..Len(layers) :
       createsToken(layers[i].patch) => now + tokenDelay(layers[i].patch) <= MaxTime
  /\ Await(args)

NextTimer ==
  \/ Decorate
  \/ \E args \in TimeoutArgs : InTime(args)
  \/ \E c \in DOMAIN calls : PatchSettle(c)
  \/ \E c \in DOMAIN calls : CallInner(c)
  \/ \E c \in DOMAIN calls : \E state \in {"fulfilled", "rejected"} : FnSettle(c, state)
  \/ \E c \in DOMAIN calls : FnAbort(c)
  \/ \E c \in DOMAIN calls : Adopt(c)
  \/ Tick
  \/ \E k \in DOMAIN tokens : TimerFire(k)

\* the event loop runs what is queued and time passes; nothing obliges the
\* base function to settle
SpecTimer ==
  /\ InitTimeout
  /\ [][NextTimer]_vars
  /\ WF_vars(\E c \in DOMAIN calls : PatchSettle(c))
  /\ WF_vars(\E c \in DOMAIN calls : CallInner(c))
  /\ WF_vars(\E c \in DOMAIN calls : Adopt(c))
  /\ WF_vars(Tick)
  /\ WF_vars(\E k \in DOMAIN tokens : TimerFire(k))

(***************************************************************************)
(* C27.  The timer started by timeout is never cancelled: the token of     *)
(* every invocation becomes signalled ms after it was created, also when   *)
(* fn has fulfilled or rejected before; the outcome already delivered to   *)
(* the caller is not changed by the late signal; after k invocations k     *)
(* timers have been started, and each one fires exactly once.              *)
(***************************************************************************)
\* one timer per invocation, pending up to the end of its delay and not
\* when time has moved past it
C27_Timers ==
  /\ Len(tokens) = Len(calls)
  /\ \A k \in DOMAIN tokens :
       /\ calls[k].hops[1].token = k
       /\ tokens[k].due = calls[k].hops[1].at + tokenDelay(layers[1].patch)
       /\ tokens[k].signalled => now >= tokens[k].due
       /\ ~tokens[k].signalled => now <= tokens[k].due

\* a timer that has fired does not fire again, and a settled call keeps its
\* result whatever its token does
C27_Once ==
  /\ \A k \in DOMAIN tokens :
       /\ tokens'[k].due = tokens[k].due
       /\ tokens[k].signalled => tokens'[k].signalled
  /\ \A c \in DOMAIN calls :
       calls[c].phase = "settled" => calls'[c] = calls[c]

C27_TimerIsNeverCancelled ==
  /\ []C27_Timers
  /\ [][C27_Once]_vars
  /\ \A k \in 1..(MaxCalls + 1) :
       (k \in DOMAIN tokens) ~> (k \in DOMAIN tokens /\ tokens[k].signalled)

\* fn fulfilled before the delay had elapsed, the caller has its result,
\* and the token of that invocation has signalled afterwards
C27_Witness ==
  \E c \in DOMAIN calls :
    /\ calls[c].phase = "settled"
    /\ calls[c].result = [state |-> "fulfilled", value |-> calls[c].fnArgs]
    /\ calls[c].innerAt < tokens[c].due
    /\ tokens[c].signalled
    /\ Len(calls) = MaxCalls
    /\ \A k \in DOMAIN tokens : tokens[k].signalled

(***************************************************************************)
(* Functions and payloads that throw synchronously: a patch function that  *)
(* throws, a base function that throws when it is called, a payload        *)
(* JSON.stringify cannot serialize.  The caller makes its next call once   *)
(* the last has settled or has thrown.                                     *)
(***************************************************************************)
ThrowPool ==
  { options(Obj("method" :> Str("POST"))),
    options(Fn("raise", FALSE, "", Boom)),
    method(Fn("raise", FALSE, "", Denied)),
    headers(Fn("const", TRUE, "", Obj(OtherAuth))),
    timeout(0) }

ThrowLists ==
  UNION {[1..n -> ThrowPool] \cup
         {<<body>> \o rest : rest \in [1..(n - 1) -> ThrowPool]}
         : n \in 1..MaxDecorators}

ThrowArgs == {<<Url>>, <<Url, Obj("method" :> Str("GET"))>>}

ThrowArgsFor(fn) ==
  IF fn # <<>> /\ fn[1].kind = "body"
    THEN {<<j>> \o a : j \in Payloads \cup {Circular}, a \in ThrowArgs}
    ELSE ThrowArgs

\* the caller invokes the decorated function, in a try block
Try(args) ==
  /\ \A c \in DOMAIN calls : calls[c].phase \in {"settled", "threw"}
  /\ Start(args)

\* the base function throws when it is called instead of returning a
\* promise
FnThrow(c) ==
  /\ calls[c].phase = "fn"
  /\ calls' = [calls EXCEPT ![c] = thrown(@, Err("thrown by fn"))]
  /\ UNCHANGED <<decorators, built, layers, applied, patchCalls, fnCalls, form,
                 timeVars, heapVars, otherVars>>

InitThrow ==
  /\ decorators \in ThrowLists
  /\ built = "no"
  /\ layers = <<>>
  /\ applied = <<>>
  /\ calls = <<>>
  /\ patchCalls = [i \in 1..Len(decorators) |-> 0]
  /\ fnCalls = 0
  /\ form = ViaDecorate
  /\ tokens = <<>>
  /\ now = 0
  /\ heap = <<>>
  /\ refs = <<>>
  /\ memo = <<>>
  /\ chain = <<>>

NextThrow ==
  \/ Decorate
  \/ \E args \in ThrowArgsFor(layers) : Try(args)
  \/ \E c \in DOMAIN calls : PatchSettle(c)
  \/ \E c \in DOMAIN calls : CallInner(c)
  \/ \E c \in DOMAIN calls : FnSettle(c, "fulfilled")
  \/ \E c \in DOMAIN calls : FnThrow(c)
  \/ \E c \in DOMAIN calls : Adopt(c)

SpecThrow == InitThrow /\ [][NextThrow]_vars

(***************************************************************************)
(* C28, as claimed.  A function built by options, option, method, headers, *)
(* timeout or body never throws synchronously when invoked: it always      *)
(* returns a promise, and a synchronous throw by the patch function or by  *)
(* fn itself surfaces as a rejection of that promise with the thrown       *)
(* value.                                                                  *)
(***************************************************************************)
\* the patch function of the layer where the call stopped throws
PatchThrew(rec) ==
  /\ rec.layer \in 1..Len(layers)
  /\ layers[rec.layer].kind = "options"
  /\ raises(layers[rec.layer].patch)
  /\ rec.phase \in {"unwinding", "settled"}

\* the base function threw when it was called
FnThrew(rec) == rec.inner.value = <<Err("thrown by fn")>>

ThrowsSurfaceAsRejections ==
  \A rec \in Records :
    /\ PatchThrew(rec) =>
         /\ rec.inner = [state |-> "rejected", value |-> <<reasonOf(layers[rec.layer].patch)>>]
         /\ rec.phase = "settled" => rec.result = rec.inner
    /\ FnThrew(rec) =>
         /\ rec.phase \in {"unwinding", "settled"}
         /\ rec.inner.state = "rejected"
         /\ rec.phase = "settled" => rec.result = rec.inner

C28_NeverThrowsSynchronously ==
  /\ \A rec \in Records : rec.phase # "threw"
  /\ ThrowsSurfaceAsRejections

(***************************************************************************)
(* C28, amended.  A function built by options, option, method, headers or  *)
(* timeout never throws synchronously when invoked, and one built by body  *)
(* throws synchronously only when JSON.stringify throws on the payload;    *)
(* in every other case a promise is returned, and a synchronous throw by   *)
(* the patch function or by fn itself surfaces as a rejection of that      *)
(* promise with the thrown value.                                          *)
(***************************************************************************)
C28_NoSynchronousThrowButStringify ==
  /\ \A rec \in Records :
       rec.phase = "threw" =>
         /\ decorators[1].kind = "body"
         /\ rec.layer = 1
         /\ stringifyThrows(rec.args[1])
         /\ rec.hops = <<>>
         /\ ~FnCalled(rec)
  /\ \A rec \in Records :
       (decorators[1].kind = "body" /\ rec.phase # "threw") => ~stringifyThrows(rec.args[1])
  /\ ThrowsSurfaceAsRejections

\* fn threw when method's layer called it, and the caller's promise has
\* rejected with what fn threw; an earlier call of the same function, whose
\* payload was circular, threw
C28_Witness ==
  /\ decorators = <<body, headers(Fn("const", TRUE, "", Obj(OtherAuth)))>>
  /\ Len(calls) = 2
  /\ calls[1].phase = "threw"
  /\ calls[1].inner = [state |-> "thrown", value |-> <<Err("TypeError")>>]
  /\ calls[2].phase = "settled"
  /\ Len(calls[2].hops) = 2
  /\ calls[2].result = [state |-> "rejected", value |-> <<Err("thrown by fn")>>]

(***************************************************************************)
(* Ways to put the same decorators around fn: decorate(fn, xs ++ ys),      *)
(* decorate(decorate(fn, ys), xs) and, for one decorator, d(fn).  The      *)
(* caller builds a function one way, calls it, builds it another way and   *)
(* calls that, keeping what fn received.                                   *)
(***************************************************************************)
AssocPool ==
  { options(Obj("method" :> Str("POST"))),
    method(Fn("const", TRUE, "", Str("GET"))) }

AssocLists == UNION {[1..n -> AssocPool] : n \in 1..(MaxDecorators + 1)}

\* decorate(fn, xs ++ ys)
Whole(xs, ys) == Expr("decorate", "decorate", <<xs \o ys>>)

\* decorate(decorate(fn, ys), xs)
Nested(xs, ys) == Expr("decorate", "decorate twice", <<xs, ys>>)

\* d(fn)
Direct(d) == Expr("decorate", "apply", <<<<d>>>>)


\* the function the expression gives, around the base function
decorated(expr) ==
  CASE expr.name = "decorate" -> decorate(<<>>, expr.groups[1])
    [] expr.name = "decorate twice" ->
         decorate(decorate(<<>>, expr.groups[2]), expr.groups[1])
    [] expr.name = "apply" -> direct(expr.groups[1][1], <<>>)

\* the expression is evaluated
BuildDecorated ==
  /\ built = "no"
  /\ built' = "yes"
  /\ layers' = decorated(form)
  /\ decorators' = decorated(form)
  /\ applied' = decorated(form)
  /\ patchCalls' = [i \in 1..Len(decorated(form)) |-> 0]
  /\ UNCHANGED <<calls, fnCalls, form, timeVars, heapVars, otherVars>>

\* the expressions that put the decorators ds around fn
Regroupings(ds) ==
  {Whole(ds, <<>>)} \cup
  {Nested(SubSeq(ds, 1, k), SubSeq(ds, k + 1, Len(ds))) : k \in 1..(Len(ds) - 1)} \cup
  (IF Len(ds) = 1 THEN {Direct(ds[1])} ELSE {})

AssocForms == UNION {Regroupings(ds) : ds \in AssocLists}

\* the caller turns to another expression over the same decorators
Regroup(expr) ==
  /\ expr \in AssocForms
  /\ Rebuild(expr)

InitAssoc ==
  /\ form \in AssocForms
  /\ decorators = <<>>
  /\ built = "no"
  /\ layers = <<>>
  /\ applied = <<>>
  /\ calls = <<>>
  /\ patchCalls = <<>>
  /\ fnCalls = 0
  /\ tokens = <<>>
  /\ now = 0
  /\ heap = <<>>
  /\ refs = <<>>
  /\ memo = <<>>
  /\ chain = <<>>

NextAssoc ==
  \/ BuildDecorated
  \/ \E expr \in Regroupings(Flat(form.groups)) : Regroup(expr)
  \/ \E args \in ThrowArgs : Again(args)
  \/ \E c \in DOMAIN calls : PatchSettle(c)
  \/ \E c \in DOMAIN calls : CallInner(c)

SpecAssoc == InitAssoc /\ [][NextAssoc]_vars

(***************************************************************************)
(* C29.  Composition by decorate is associative over list concatenation    *)
(* and agrees with direct application: decorate(fn, [d]) behaves as d(fn), *)
(* and for non-empty lists xs and ys, decorate(fn, xs ++ ys) behaves as    *)
(* decorate(decorate(fn, ys), xs), calling fn with the same arguments for  *)
(* every input.                                                            *)
(***************************************************************************)
C29_DecorateIsAssociative ==
  /\ built = "yes" => layers = Flat(form.groups)
  /\ \A pair \in FnPairs :
       Flat(pair[1].form.groups) = Flat(pair[2].form.groups) =>
         /\ pair[1].fnArgs = pair[2].fnArgs
         /\ [p \in DOMAIN pair[1].hops |-> pair[1].hops[p].merged] =
              [p \in DOMAIN pair[2].hops |-> pair[2].hops[p].merged]

\* fn has been called through decorate(decorate(fn, [method(GET)]),
\* [options({method: POST})]) and through decorate(fn, [options(...),
\* method(...)]) and has received POST both times; the other order of the
\* two decorators gives GET
C29_Witness ==
  \E pair \in FnPairs :
    /\ pair[1].form = Nested(<<options(Obj("method" :> Str("POST")))>>,
                             <<method(Fn("const", TRUE, "", Str("GET")))>>)
    /\ pair[2].form.name = "decorate"
    /\ pair[1].args = <<Url>>
    /\ pair[1].fnArgs = <<Url, Obj("method" :> Str("POST"))>>
    /\ pair[2].fnArgs = pair[1].fnArgs

(***************************************************************************)
(* Callers that pass one argument more than the decorated function names,  *)
(* or leave opts out, or pass undefined for it.                            *)
(***************************************************************************)
Extra == Str("extra")

ArityPool ==
  { options(Obj(EmptyMap)),
    options(Obj("method" :> Str("POST"))),
    method(Fn("const", TRUE, "", Str("DELETE"))),
    pass }

ArityLists ==
  UNION {[1..n -> ArityPool] \cup
         {<<body>> \o rest : rest \in [1..(n - 1) -> ArityPool]}
         : n \in 1..MaxDecorators}

ArityArgs ==
  { <<Url>>,
    <<Url, Obj("method" :> Str("GET"))>>,
    <<Url, Undefined, Extra>>,
    <<Url, Obj("method" :> Str("GET")), Extra>> }

ArityArgsFor(fn) ==
  IF fn # <<>> /\ fn[1].kind = "body"
    THEN {<<j>> \o a : j \in Payloads, a \in ArityArgs}
    ELSE ArityArgs

InitArity ==
  /\ decorators \in ArityLists
  /\ built = "no"
  /\ layers = <<>>
  /\ applied = <<>>
  /\ calls = <<>>
  /\ patchCalls = [i \in 1..Len(decorators) |-> 0]
  /\ fnCalls = 0
  /\ form = ViaDecorate
  /\ tokens = <<>>
  /\ now = 0
  /\ heap = <<>>
  /\ refs = <<>>
  /\ memo = <<>>
  /\ chain = <<>>

NextArity ==
  \/ Decorate
  \/ \E args \in ArityArgsFor(layers) : Again(args)
  \/ \E c \in DOMAIN calls : PatchSettle(c)
  \/ \E c \in DOMAIN calls : CallInner(c)

SpecArity == InitArity /\ [][NextArity]_vars

(***************************************************************************)
(* C30.  Every options-based layer calls its inner function with exactly   *)
(* two positional arguments (url, merged mapping): url is passed through   *)
(* unchanged, an omitted opts reaches the inner function as a mapping      *)
(* (empty when the patch is empty) rather than staying omitted, and any    *)
(* argument the caller passed beyond the second is dropped.                *)
(***************************************************************************)
\* the position of opts among the arguments the layer of hop is called with
OptsAt(hop) == IF layers[hop.layer].kind = "body" THEN 3 ELSE 2

\* the layer of hop was called without opts
OptsOmitted(hop) == arg(hop.args, OptsAt(hop)) = Undefined

C30_TwoPositionalArguments ==
  \A rec \in Records :
    \A p \in DOMAIN rec.hops :
      InnerCalled(rec, p) =>
        LET hop == rec.hops[p]
            got == InnerReceived(rec, p)
        IN /\ Len(got) = 2
           /\ got[1] = hop.args[OptsAt(hop) - 1]
           /\ got[1] = Url
           /\ got[2].t = "obj"
           /\ got[2] = Obj(hop.merged)
           /\ OptsOmitted(hop) => got[2] = Obj(hop.patch)
           /\ (OptsOmitted(hop) /\ hop.patch = EmptyMap) => got[2] = Obj(EmptyMap)
           /\ Extra \notin {got[n] : n \in DOMAIN got}

\* options({}) has called fn with ('123.com', {}) when called with the url
\* alone, and with ('123.com', {method: 'GET'}) when called with a third
\* argument
C30_Witness ==
  /\ decorators = <<options(Obj(EmptyMap))>>
  /\ Len(calls) = 2
  /\ calls[1].args = <<Url>>
  /\ calls[1].fnArgs = <<Url, Obj(EmptyMap)>>
  /\ calls[2].args = <<Url, Obj("method" :> Str("GET")), Extra>>
  /\ calls[2].fnArgs = <<Url, Obj("method" :> Str("GET"))>>

====
